---- MODULE Spec2Model ----
(***************************************************************************)
(* State-machine model of the CHIRP audio core: RingBuffer (config.h),     *)
(* the decoder pool and the AudioStream lifecycle (startStream,            *)
(* stopStream, fillStreamBuffers, Mixer::processSample, the stop check of  *)
(* loop()).                                                                *)
(*                                                                         *)
(* Sizes that the firmware fixes at 256K samples, 512-byte reads and       *)
(* 2048/16384-sample margins are scaled down to a few samples so that the  *)
(* cursors wrap and the margins bite within a small state space; the       *)
(* arithmetic on them is the firmware's.                                   *)
(***************************************************************************)
EXTENDS Integers, Sequences, FiniteSets, TLC

\* ------------------------------------------------------------------------
\* Sizes
\* ------------------------------------------------------------------------
\* config.h:157 / config.h:158
MAX_STREAMS == 3
MAX_MP3_DECODERS == 2
\* config.h:159 is 256 * 1024 samples; scaled.
STREAM_BUFFER_SIZE == 11
\* sizeof(wavBuf) = sizeof(mp3Buf) = 512 bytes per read; scaled to one
\* stereo frame of 16-bit samples.
READ_BYTES == 4
\* "available > 2048" and "available > 16384"; scaled so that a read is
\* made exactly when the largest expansion of one read (2 samples, each
\* pushed 4 times) fits, which leaves room for a read while a frame (2
\* samples) is still buffered, as the code reads with samples buffered.
WAV_MARGIN == 7
MP3_MARGIN == 7
\* Number of startStream calls in a run of the model.
MaxStarts == 3

Slots == 0 .. (MAX_STREAMS - 1)
Decoders == 0 .. (MAX_MP3_DECODERS - 1)
\* Samples the ring-buffer harness pushes.
HarnessSamples == {0, 1}

\* ------------------------------------------------------------------------
\* RingBuffer (config.h:168-218).  rb = [buffer, readPos, writePos];
\* buffer is the PSRAM array, or NullBuffer when pmalloc failed.
\* ------------------------------------------------------------------------
NullBuffer == <<>>

\* Mutant of availableForWrite: the space is reported four samples too
\* large.
availableForWrite_wide(rb) ==
    IF rb.buffer = NullBuffer THEN 0
    ELSE LET currentLevel ==
                 (rb.writePos - rb.readPos + STREAM_BUFFER_SIZE) % STREAM_BUFFER_SIZE
         IN  (STREAM_BUFFER_SIZE - 1) - currentLevel + 4

availableForWrite(rb) ==
    IF rb.buffer = NullBuffer THEN 0
    ELSE LET currentLevel ==
                 (rb.writePos - rb.readPos + STREAM_BUFFER_SIZE) % STREAM_BUFFER_SIZE
         IN  (STREAM_BUFFER_SIZE - 1) - currentLevel

availableForRead(rb) ==
    IF rb.buffer = NullBuffer THEN 0
    ELSE (rb.writePos - rb.readPos + STREAM_BUFFER_SIZE) % STREAM_BUFFER_SIZE

\* Mutant of push: the full check is missing, the oldest sample is overwritten.
push_overwrite(rb, sample) ==
    [rb  |-> [rb EXCEPT !.buffer[rb.writePos] = sample,
                        !.writePos = (rb.writePos + 1) % STREAM_BUFFER_SIZE],
     ret |-> TRUE]

\* Mutant of push: the cursor is advanced without wrapping.
push_nowrap(rb, sample) ==
    IF rb.writePos + 1 = rb.readPos
    THEN [rb |-> rb, ret |-> FALSE]
    ELSE [rb  |-> [buffer   |-> [i \in DOMAIN rb.buffer \cup {rb.writePos} |->
                                    IF i = rb.writePos THEN sample ELSE rb.buffer[i]],
                   readPos  |-> rb.readPos,
                   writePos |-> rb.writePos + 1],
          ret |-> TRUE]

\* push returns the buffer after the call and the call's return value.
push(rb, sample) ==
    IF rb.buffer = NullBuffer THEN [rb |-> rb, ret |-> FALSE]
    ELSE LET nextWrite == (rb.writePos + 1) % STREAM_BUFFER_SIZE
         IN  IF nextWrite = rb.readPos
             THEN [rb |-> rb, ret |-> FALSE]
             ELSE [rb  |-> [rb EXCEPT !.buffer[rb.writePos] = sample,
                                      !.writePos = nextWrite],
                   ret |-> TRUE]

\* Mutant of pop: the sample after the read cursor is returned.
pop_offbyone(rb) ==
    [rb  |-> [rb EXCEPT !.readPos = (rb.readPos + 1) % STREAM_BUFFER_SIZE],
     ret |-> rb.buffer[(rb.readPos + 1) % STREAM_BUFFER_SIZE]]

\* pop returns the buffer after the call and the sample returned.
pop(rb) ==
    IF rb.buffer = NullBuffer THEN [rb |-> rb, ret |-> 0]
    ELSE [rb  |-> [rb EXCEPT !.readPos = (rb.readPos + 1) % STREAM_BUFFER_SIZE],
          ret |-> rb.buffer[rb.readPos]]

clear(rb) == [rb EXCEPT !.readPos = 0, !.writePos = 0]

\* The samples between the cursors, oldest first.
RECURSIVE contentsFrom(_, _, _)
contentsFrom(rb, pos, n) ==
    IF n = 0 THEN <<>>
    ELSE <<rb.buffer[pos]>> \o contentsFrom(rb, (pos + 1) % STREAM_BUFFER_SIZE, n - 1)

contents(rb) == contentsFrom(rb, rb.readPos, availableForRead(rb))

\* ------------------------------------------------------------------------
\* File names.  Chars gives the characters of each name the model uses.
\* ------------------------------------------------------------------------
PathFlashA  == "/flash/a.wav"
PathFlashNo == "/flash/no.wav"
PathSdMp3   == "/b.MP3"
PathSdWav   == "/c.wav"
PathSdBad   == "/bad.wav"
PathSdNo    == "/no.mp3"
PathFlashMp3 == "/flash/d.mp3"
PathSdOdd   == "/odd.wav"
PathSdLoud  == "/l.wav"
PathSdList  == "/m.wav"
PathFlashList == "/flash/m.wav"
PathFlashM22 == "/flash/m22.wav"
PathSdS22   == "/s22.wav"
PathSdM44   == "/m44.wav"
PathSdS44   == "/s44.wav"

\* The names startStream is called with.
Paths == {PathFlashA, PathFlashNo, PathSdMp3, PathSdBad, PathSdNo}

Chars(filename) ==
    CASE filename = PathFlashA  -> <<"/","f","l","a","s","h","/","a",".","w","a","v">>
      [] filename = PathFlashNo -> <<"/","f","l","a","s","h","/","n","o",".","w","a","v">>
      [] filename = PathSdMp3   -> <<"/","b",".","M","P","3">>
      [] filename = PathSdWav   -> <<"/","c",".","w","a","v">>
      [] filename = PathSdBad   -> <<"/","b","a","d",".","w","a","v">>
      [] filename = PathSdNo    -> <<"/","n","o",".","m","p","3">>
      [] filename = PathFlashMp3 -> <<"/","f","l","a","s","h","/","d",".","m","p","3">>
      [] filename = PathSdOdd   -> <<"/","o","d","d",".","w","a","v">>
      [] filename = PathSdLoud  -> <<"/","l",".","w","a","v">>
      [] filename = PathSdList  -> <<"/","m",".","w","a","v">>
      [] filename = PathFlashList -> <<"/","f","l","a","s","h","/","m",".","w","a","v">>
      [] filename = PathFlashM22 ->
           <<"/","f","l","a","s","h","/","m","2","2",".","w","a","v">>
      [] filename = PathSdS22   -> <<"/","s","2","2",".","w","a","v">>
      [] filename = PathSdM44   -> <<"/","m","4","4",".","w","a","v">>
      [] filename = PathSdS44   -> <<"/","s","4","4",".","w","a","v">>
      [] OTHER -> <<>>

FlashPrefix == <<"/","f","l","a","s","h","/">>

\* strncmp(filename, "/flash/", 7) == 0
isFlash(filename) ==
    /\ Len(Chars(filename)) >= Len(FlashPrefix)
    /\ SubSeq(Chars(filename), 1, Len(FlashPrefix)) = FlashPrefix

\* strrchr(filename, '.'): the suffix from the last '.', or <<>> for NULL.
strrchrDot(filename) ==
    LET c    == Chars(filename)
        dots == {k \in 1 .. Len(c) : c[k] = "."}
    IN  IF dots = {} THEN <<>>
        ELSE LET last == CHOOSE k \in dots : \A j \in dots : j <= k
             IN  SubSeq(c, last, Len(c))

toLower(c) ==
    CASE c = "M" -> "m" [] c = "P" -> "p" [] c = "W" -> "w"
      [] c = "A" -> "a" [] c = "V" -> "v" [] OTHER -> c

\* ext && strcasecmp(ext, ".mp3") == 0
isMP3(filename) ==
    LET ext == strrchrDot(filename)
    IN  /\ ext # <<>>
        /\ [k \in 1 .. Len(ext) |-> toLower(ext[k])] = <<".", "m", "p", "3">>

\* ------------------------------------------------------------------------
\* Files on the two storage tiers.  A WAV file is the 12-byte RIFF/WAVE
\* preamble followed by its chunks; riff, wave and audioFormat are the
\* marker fields of WAVHeader (config.h:60-74).  An MP3 file is a byte
\* count with the frame parameters the decoder reports for it.
\* ------------------------------------------------------------------------
FmtChunk  == [id |-> "fmt ", size |-> 16]
ListChunk == [id |-> "LIST", size |-> 4]
DataChunk(n) == [id |-> "data", size |-> n]

\* Byte offset of the 8-byte header of chunk k of a chunk list (the file
\* size for k = Len(chunks) + 1).
RECURSIVE chunkOffset(_, _)
chunkOffset(chunks, k) ==
    IF k = 1 THEN 12 ELSE chunkOffset(chunks, k - 1) + 8 + chunks[k - 1].size

\* A WAV file with its layout: offsets[k] is chunkOffset of chunk k, size
\* the length of the file in bytes, dataStart the byte offset of the first
\* sample of the first `data` chunk (0 when there is none).
WavFile(riff, wave, audioFormat, numChannels, sampleRate, chunks, data) ==
    LET offs == [k \in 1 .. (Len(chunks) + 1) |-> chunkOffset(chunks, k)]
        ks   == {k \in 1 .. Len(chunks) : chunks[k].id = "data"}
    IN  [kind |-> "wav", riff |-> riff, wave |-> wave, audioFormat |-> audioFormat,
         numChannels |-> numChannels, sampleRate |-> sampleRate,
         chunks |-> chunks, data |-> data,
         offsets |-> offs, size |-> offs[Len(chunks) + 1],
         dataStart |-> IF ks = {} THEN 0
                       ELSE offs[CHOOSE k \in ks : \A j \in ks : k <= j] + 8]

\* Well-formed mono 22.05 kHz WAV, `data` directly after the header fields.
WavFlashA == WavFile(TRUE, TRUE, 1, 1, 22050, <<FmtChunk, DataChunk(4)>>, <<1, 2>>)

\* Well-formed stereo 44.1 kHz WAV, `data` directly after the header fields.
WavSdC == WavFile(TRUE, TRUE, 1, 2, 44100, <<FmtChunk, DataChunk(4)>>, <<1, 2>>)

\* Well-formed stereo 44.1 kHz WAV whose data is three samples: one frame
\* and a half.
WavSdOdd == WavFile(TRUE, TRUE, 1, 2, 44100, <<FmtChunk, DataChunk(6)>>, <<1, 2, 1>>)

\* Well-formed stereo 44.1 kHz WAV, one frame at full scale.
WavSdLoud ==
    WavFile(TRUE, TRUE, 1, 2, 44100, <<FmtChunk, DataChunk(4)>>, <<32767, -32768>>)

\* Well-formed stereo 44.1 kHz WAV with a LIST chunk between `fmt ` and
\* `data`: the data payload starts at byte 56.
WavList ==
    WavFile(TRUE, TRUE, 1, 2, 44100, <<FmtChunk, ListChunk, DataChunk(4)>>, <<1, 2>>)

\* Well-formed files of two reads each, one for every supported format.
WavM22 == WavFile(TRUE, TRUE, 1, 1, 22050, <<FmtChunk, DataChunk(8)>>, <<1, 2, 3, 4>>)
WavS22 == WavFile(TRUE, TRUE, 1, 2, 22050, <<FmtChunk, DataChunk(8)>>, <<1, 2, 3, 4>>)
WavM44 == WavFile(TRUE, TRUE, 1, 1, 44100, <<FmtChunk, DataChunk(8)>>, <<1, 2, 3, 4>>)
WavS44 == WavFile(TRUE, TRUE, 1, 2, 44100, <<FmtChunk, DataChunk(8)>>, <<1, 2, 3, 4>>)

\* Malformed: no RIFF marker, not PCM, no `data` chunk.
WavSdBad == WavFile(FALSE, TRUE, 3, 2, 44100, <<FmtChunk, ListChunk>>, <<>>)

Mp3SdB == [kind |-> "mp3", size |-> 4, nChans |-> 2, samprate |-> 44100]

\* An MP3 file on flash, as the WAV reader of startStream sees its first
\* 44 bytes: no markers, zero channels, an unknown chunk, no `data`.
Mp3FlashD ==
    [WavFile(FALSE, FALSE, 0, 0, 0, <<[id |-> "????", size |-> 24]>>, <<>>)
       EXCEPT !.kind = "mp3"]

NoFile == [kind |-> "none"]

\* What LittleFS.open / sd.open find under a name.
FileAt(filename) ==
    CASE filename = PathFlashA -> WavFlashA
      [] filename = PathSdMp3  -> Mp3SdB
      [] filename = PathSdWav  -> WavSdC
      [] filename = PathSdBad  -> WavSdBad
      [] filename = PathFlashMp3 -> Mp3FlashD
      [] filename = PathSdOdd    -> WavSdOdd
      [] filename = PathSdLoud   -> WavSdLoud
      [] filename = PathSdList   -> WavList
      [] filename = PathFlashList -> WavList
      [] filename = PathFlashM22 -> WavM22
      [] filename = PathSdS22    -> WavS22
      [] filename = PathSdM44    -> WavM44
      [] filename = PathSdS44    -> WavS44
      [] OTHER -> NoFile

fileSize(f) == f.size

\* The chunk header that starts at byte offset pos (id "????" elsewhere).
chunkAt(f, pos) ==
    LET ks == {k \in 1 .. Len(f.chunks) : f.offsets[k] = pos}
    IN  IF ks = {} THEN [id |-> "????", size |-> 0]
        ELSE f.chunks[CHOOSE k \in ks : TRUE]

\* The 16-bit word at even byte offset pos: a sample inside the data
\* payload, otherwise header or metadata bytes (read as the value -32768).
wordAt(f, pos) ==
    IF f.dataStart > 0 /\ pos >= f.dataStart /\ pos < f.dataStart + 2 * Len(f.data)
    THEN f.data[((pos - f.dataStart) \div 2) + 1]
    ELSE -32768

\* File::available(): bytes left after the position.
available(f, pos) == IF pos < fileSize(f) THEN fileSize(f) - pos ELSE 0

\* File::seek(target): refused when the target is past the end of the file.
seek(f, pos, target) == IF target <= fileSize(f) THEN target ELSE pos

\* A closed File / FsFile object.
ClosedFile == [open |-> FALSE, name |-> "", pos |-> 0]

\* fread: the position after reading up to n bytes at pos.
readAdvance(f, pos, n) ==
    IF available(f, pos) < n THEN pos + available(f, pos) ELSE pos + n

\* The samples = bytesRead / 2 16-bit words of a read of n bytes at pos.
wordsRead(f, pos, n) ==
    LET bytesRead == readAdvance(f, pos, n) - pos
    IN  [k \in 1 .. (bytesRead \div 2) |-> wordAt(f, pos + 2 * (k - 1))]

\* ------------------------------------------------------------------------
\* AudioStream (config.h:220-240) and the globals of the audio core.
\* w = [st, rb, pool, tr, now]: streams[], streamBuffers[],
\* mp3DecoderInUse[], the resource operations of the running call in
\* program order, and the value millis() returns during the call.
\* AudioStream::volume holds the level n of the float n / 99.0f.
\* ------------------------------------------------------------------------
STREAM_TYPE_INACTIVE  == "INACTIVE"
STREAM_TYPE_WAV_FLASH == "WAV_FLASH"
STREAM_TYPE_WAV_SD    == "WAV_SD"
STREAM_TYPE_MP3_SD    == "MP3_SD"

\* initAudioSystem: every slot inactive, buffers allocated and cleared,
\* no decoder in use.
InitStream ==
    [active |-> FALSE, type |-> STREAM_TYPE_INACTIVE, decoderIndex |-> -1,
     flashFile |-> ClosedFile, sdFile |-> ClosedFile, filename |-> "",
     stopRequested |-> FALSE, fileFinished |-> FALSE,
     channels |-> 0, sampleRate |-> 0, startTime |-> 0, volume |-> 99]

InitBuffer ==
    [buffer |-> [k \in 0 .. (STREAM_BUFFER_SIZE - 1) |-> 0],
     readPos |-> 0, writePos |-> 0]

initAudioSystem ==
    [st   |-> [i \in Slots |-> InitStream],
     rb   |-> [i \in Slots |-> InitBuffer],
     pool |-> [d \in Decoders |-> FALSE],
     tr   |-> <<>>,
     now  |-> 0]

\* The body of stopStream, on stream slot i.
stopStreamAt(w, i) ==
    LET s == w.st[i]
    IN  IF ~s.active /\ s.type = STREAM_TYPE_INACTIVE THEN w
        ELSE
          LET release   == s.type = STREAM_TYPE_MP3_SD /\ s.decoderIndex # -1
              isFlashT  == s.type = STREAM_TYPE_WAV_FLASH
              isSdT     == s.type \in {STREAM_TYPE_WAV_SD, STREAM_TYPE_MP3_SD}
              closeFl   == isFlashT /\ s.flashFile.open
              closeSd   == (~isFlashT) /\ isSdT /\ s.sdFile.open
          IN  [now  |-> w.now,
               st   |-> [w.st EXCEPT ![i] =
                            [s EXCEPT !.active = FALSE,
                                      !.decoderIndex = IF release THEN -1 ELSE @,
                                      !.flashFile = IF closeFl THEN ClosedFile ELSE @,
                                      !.sdFile = IF closeSd THEN ClosedFile ELSE @,
                                      !.type = STREAM_TYPE_INACTIVE]],
               rb   |-> [w.rb EXCEPT ![i] = clear(@)],
               pool |-> IF release THEN [w.pool EXCEPT ![s.decoderIndex] = FALSE]
                        ELSE w.pool,
               tr   |-> w.tr \o (IF release THEN <<"stop:release">> ELSE <<>>)
                             \o (IF closeFl \/ closeSd THEN <<"stop:close">> ELSE <<>>)]

\* Mutant of stopStream: the in-use flag of the decoder is left set.
stopStream_keepDecoder(w, i) ==
    [stopStreamAt(w, i) EXCEPT !.pool = w.pool]

\* Mutant of stopStream: the stream pointer is taken from slot 0
\* (AudioStream* s = &streams[0]).
stopStream_slot0(w, i) == stopStreamAt(w, 0)

\* Mutant of stopStream: s->type = STREAM_TYPE_INACTIVE is missing.
stopStream_keepType(w, i) ==
    [stopStreamAt(w, i) EXCEPT !.st[i].type = w.st[i].type]

\* stopStream(streamIdx) for streamIdx in range.
stopStream(w, i) == stopStreamAt(w, i)

\* The chunk scan of startStream: from pos, read 8-byte chunk headers
\* until `data` is found or nothing is available; the position it ends at.
RECURSIVE wavScan(_, _)
wavScan(f, pos) ==
    IF available(f, pos) = 0 THEN pos
    ELSE LET c     == chunkAt(f, pos)
             after == readAdvance(f, pos, 8)
         IN  IF c.id = "data" THEN after
             ELSE wavScan(f, seek(f, after, after + c.size))

\* Read WAVHeader (44 bytes) and find the data chunk: the file position.
wavFindData(f) ==
    LET afterHeader == readAdvance(f, 0, 44)
    IN  IF chunkAt(f, 36).id = "data" THEN afterHeader
        ELSE wavScan(f, seek(f, afterHeader, 12))

\* Mutant of clampChannels: the header's channel count is taken as it is.
clampChannels_none(n) == n

\* if (channels < 1 || channels > 2) channels = 2
clampChannels(n) == IF n < 1 \/ n > 2 THEN 2 ELSE n

\* Mutant of findFreeDecoder: decoder 0 is handed out when none is free.
findFreeDecoder_steal(pool) ==
    LET free == {d \in Decoders : ~pool[d]}
    IN  IF free = {} THEN 0
        ELSE CHOOSE d \in free : \A e \in free : d <= e

\* The first decoder not in use, -1 when there is none.
findFreeDecoder(pool) ==
    LET free == {d \in Decoders : ~pool[d]}
    IN  IF free = {} THEN -1
        ELSE CHOOSE d \in free : \A e \in free : d <= e

\* The position left by the "WAV debugging" seeks of startStream.
wavDebugSeeks(f, type, pos) ==
    IF type = STREAM_TYPE_WAV_SD
    THEN LET p1 == readAdvance(f, seek(f, pos, 34), 2)
             p2 == readAdvance(f, seek(f, p1, 32), 2)
             p3 == seek(f, p2, 44)
             p4 == readAdvance(f, seek(f, p3, 34), 2)
             p5 == readAdvance(f, seek(f, p4, 32), 2)
         IN  seek(f, p5, p3)
    ELSE LET p4 == readAdvance(f, seek(f, pos, 34), 2)
             p5 == readAdvance(f, seek(f, p4, 32), 2)
         IN  seek(f, p5, pos)

\* The tail of a successful startStream (part_005:706-746).
startFinish(w, i, filename) ==
    LET s  == w.st[i]
        f  == FileAt(filename)
        s1 == [s EXCEPT !.filename = filename, !.active = TRUE,
                        !.fileFinished = FALSE, !.startTime = w.now]
        s2 == IF isMP3(filename) THEN s1
              ELSE IF s1.type = STREAM_TYPE_WAV_SD /\ s1.sdFile.open
                   THEN [s1 EXCEPT !.sdFile.pos = wavDebugSeeks(f, s1.type, @)]
              ELSE IF s1.type = STREAM_TYPE_WAV_FLASH /\ s1.flashFile.open
                   THEN [s1 EXCEPT !.flashFile.pos = wavDebugSeeks(f, s1.type, @)]
              ELSE s1
    IN  [w EXCEPT !.st[i] = s2, !.rb[i] = clear(@)]

\* startStream after its stopStream call (part_005:579-747).
startOpen(w, i, filename) ==
    LET s == w.st[i]
        f == FileAt(filename)
    IN  IF isFlash(filename)
        THEN IF f.kind = "none"
             THEN [w |-> [w EXCEPT !.st[i].flashFile = ClosedFile], ret |-> FALSE]
             ELSE [w |-> startFinish(
                           [w EXCEPT
                              !.st[i] = [s EXCEPT
                                 !.flashFile = [open |-> TRUE, name |-> filename,
                                                pos |-> wavFindData(f)],
                                 !.channels = clampChannels(f.numChannels),
                                 !.sampleRate = f.sampleRate,
                                 !.type = STREAM_TYPE_WAV_FLASH],
                              !.tr = @ \o <<"open">>],
                           i, filename),
                   ret |-> TRUE]
        ELSE IF f.kind = "none"
             THEN [w |-> [w EXCEPT !.st[i].sdFile = ClosedFile], ret |-> FALSE]
        ELSE IF isMP3(filename)
             THEN LET decoderIdx == findFreeDecoder(w.pool)
                  IN  IF decoderIdx = -1
                      THEN [w |-> [w EXCEPT !.st[i].sdFile = ClosedFile,
                                            !.tr = @ \o <<"open", "close">>],
                            ret |-> FALSE]
                      ELSE [w |-> startFinish(
                                    [w EXCEPT
                                       !.st[i] = [s EXCEPT
                                          !.sdFile = [open |-> TRUE, name |-> filename,
                                                      pos |-> 0],
                                          !.decoderIndex = decoderIdx,
                                          !.type = STREAM_TYPE_MP3_SD,
                                          !.channels = 2,
                                          !.sampleRate = 0],
                                       !.pool[decoderIdx] = TRUE,
                                       !.tr = @ \o <<"open", "acquire">>],
                                    i, filename),
                            ret |-> TRUE]
        ELSE [w |-> startFinish(
                      [w EXCEPT
                         !.st[i] = [s EXCEPT
                            !.sdFile = [open |-> TRUE, name |-> filename,
                                        pos |-> wavFindData(f)],
                            !.channels = clampChannels(f.numChannels),
                            !.sampleRate = f.sampleRate,
                            !.type = STREAM_TYPE_WAV_SD,
                            !.decoderIndex = -1],
                         !.tr = @ \o <<"open">>],
                      i, filename),
              ret |-> TRUE]

\* Mutant of startStream: the new file is opened and the decoder acquired
\* first, the previous occupant's file and decoder are given up after that.
startStream_stopLate(w, i, filename) ==
    LET w0 == stopStream(w, i)
        r  == startOpen([w0 EXCEPT !.tr = <<>>], i, filename)
    IN  [w |-> [r.w EXCEPT !.tr = @ \o w0.tr], ret |-> r.ret]

\* Mutant of startStream: the previous occupant is not stopped.
startStream_noStop(w, i, filename) == startOpen(w, i, filename)

\* startStream(streamIdx, filename) for streamIdx in range.
startStream(w, i, filename) == startOpen(stopStream(w, i), i, filename)

\* ------------------------------------------------------------------------
\* Sample-rate / channel normalisation and the pushes of one block.
\* ------------------------------------------------------------------------
\* In the loops below a value used several times is bound through a
\* singleton set, Only({body(x) : x \in {e}}), which makes TLC compute e
\* once.
Only(S) == CHOOSE x \in S : TRUE

\* push every sample of seq, stopping at the first push that fails (break).
RECURSIVE pushUntilFull(_, _)
pushUntilFull(rb, seq) ==
    IF seq = <<>> THEN rb
    ELSE Only({IF r.ret THEN pushUntilFull(r.rb, Tail(seq)) ELSE r.rb :
                 r \in {push(rb, Head(seq))}})

\* push every sample of seq, return values ignored.
RECURSIVE pushEach(_, _)
pushEach(rb, seq) ==
    IF seq = <<>> THEN rb
    ELSE Only({pushEach(r.rb, Tail(seq)) : r \in {push(rb, Head(seq))}})

\* Mutant of dupFrames: the frame is doubled sample by sample (L L R R).
RECURSIVE dupFrames_bySample(_)
dupFrames_bySample(seq) ==
    IF Len(seq) < 2 THEN <<>>
    ELSE <<seq[1], seq[1], seq[2], seq[2]>>
           \o dupFrames_bySample(SubSeq(seq, 3, Len(seq)))

\* L0 R0 L1 R1 ... -> L0 R0 L0 R0 L1 R1 L1 R1 ...; a trailing half frame
\* is dropped (if (k + 1 >= samples) break).
RECURSIVE dupFrames(_)
dupFrames(seq) ==
    IF Len(seq) < 2 THEN <<>>
    ELSE <<seq[1], seq[2], seq[1], seq[2]>> \o dupFrames(SubSeq(seq, 3, Len(seq)))

\* Every sample n times.
RECURSIVE repeat(_, _)
repeat(x, n) == IF n = 0 THEN <<>> ELSE <<x>> \o repeat(x, n - 1)

RECURSIVE dupSamples(_, _)
dupSamples(seq, n) ==
    IF seq = <<>> THEN <<>>
    ELSE repeat(Head(seq), n) \o dupSamples(Tail(seq), n)

\* The raw-WAV path of fillStreamBuffers (part_005:288-338).
wavPush(rb, channels, sampleRate, samples) ==
    IF sampleRate = 22050
    THEN IF channels = 2
         THEN Only({pushUntilFull(rb, seq) : seq \in {dupFrames(samples)}})
         ELSE Only({pushUntilFull(rb, seq) : seq \in {dupSamples(samples, 4)}})
    ELSE IF channels = 1
         THEN Only({pushEach(rb, seq) : seq \in {dupSamples(samples, 2)}})
         ELSE Only({pushEach(rb, seq) : seq \in {samples}})

\* Mutant of mp3DataCallback: the buffer is chosen by the decoder of the
\* stream instead of its slot.
mp3DataCallback_byDecoder(w, cur, nChans, samprate, pcm) ==
    IF cur < 0 \/ cur >= MAX_STREAMS \/ w.st[cur].decoderIndex < 0 THEN w
    ELSE [w EXCEPT !.rb[w.st[cur].decoderIndex] = pushEach(@, pcm)]

\* Mutant of mp3Push: the sample of a trailing half frame of a 22.05 kHz
\* stereo block is pushed.
mp3Push_keepHalf(rb, nChans, samprate, pcm) ==
    IF samprate = 22050
    THEN IF nChans = 2
         THEN Only({pushUntilFull(rb, seq) :
                      seq \in {dupFrames(pcm) \o (IF Len(pcm) % 2 = 1
                                                 THEN <<pcm[Len(pcm)]>> ELSE <<>>)}})
         ELSE Only({pushUntilFull(rb, seq) : seq \in {dupSamples(pcm, 4)}})
    ELSE IF nChans = 1
         THEN Only({pushUntilFull(rb, seq) : seq \in {dupSamples(pcm, 2)}})
         ELSE Only({pushEach(rb, seq) : seq \in {pcm}})

\* The pushes of mp3DataCallback (part_005:495-535) for one decoded block.
mp3Push(rb, nChans, samprate, pcm) ==
    IF samprate = 22050
    THEN IF nChans = 2
         THEN Only({pushUntilFull(rb, seq) : seq \in {dupFrames(pcm)}})
         ELSE Only({pushUntilFull(rb, seq) : seq \in {dupSamples(pcm, 4)}})
    ELSE IF nChans = 1
         THEN Only({pushUntilFull(rb, seq) : seq \in {dupSamples(pcm, 2)}})
         ELSE Only({pushEach(rb, seq) : seq \in {pcm}})

\* mp3DataCallback(info, pcm_buffer, len, ref) with the value cur of
\* currentDecodingStream at the time of the call.
mp3DataCallback(w, cur, nChans, samprate, pcm) ==
    IF cur < 0 \/ cur >= MAX_STREAMS THEN w
    ELSE [w EXCEPT
            !.st[cur].sampleRate = IF @ = 0 /\ samprate # 0 THEN samprate ELSE @,
            !.rb[cur] = mp3Push(@, nChans, samprate, pcm)]

\* The PCM the decoder hands to the callback for the bytes of one write:
\* one block of two samples per READ_BYTES bytes.
decodedPcm(f, pos, bytesRead) == IF bytesRead > 0 THEN <<1, 2>> ELSE <<>>

\* One iteration of the loop of fillStreamBuffers, for slot i; zero: the
\* read() of this iteration returns 0 whatever the file has left.
fillOneRead(w, i, zero) ==
    LET s  == w.st[i]
        av == availableForWrite(w.rb[i])
    IN  IF ~s.active \/ s.fileFinished THEN w
        ELSE
          LET w1 ==
                IF s.type = STREAM_TYPE_MP3_SD
                THEN IF av > MP3_MARGIN
                     THEN LET f         == FileAt(s.sdFile.name)
                              bytesRead == IF s.sdFile.open /\ ~zero
                                           THEN readAdvance(f, s.sdFile.pos, READ_BYTES)
                                                  - s.sdFile.pos
                                           ELSE 0
                              eof       == s.sdFile.open /\ bytesRead = 0
                                           /\ available(f, s.sdFile.pos) = 0
                              wr        == [w EXCEPT
                                              !.st[i].sdFile.pos = @ + bytesRead,
                                              !.st[i].fileFinished = IF eof THEN TRUE ELSE @]
                          IN  IF bytesRead > 0 /\ s.decoderIndex # -1
                              THEN mp3DataCallback(wr, i, f.nChans, f.samprate,
                                                   decodedPcm(f, s.sdFile.pos, bytesRead))
                              ELSE wr
                     ELSE w
                ELSE IF s.type \in {STREAM_TYPE_WAV_SD, STREAM_TYPE_WAV_FLASH}
                THEN IF av > WAV_MARGIN
                     THEN LET onSd      == s.type = STREAM_TYPE_WAV_SD
                              h         == IF onSd THEN s.sdFile ELSE s.flashFile
                              f         == FileAt(h.name)
                              bytesRead == IF h.open /\ ~zero
                                           THEN readAdvance(f, h.pos, READ_BYTES) - h.pos
                                           ELSE 0
                              eof       == h.open /\ bytesRead = 0
                              h1        == [h EXCEPT !.pos = @ + bytesRead]
                              samples   == IF h.open /\ ~zero THEN wordsRead(f, h.pos, READ_BYTES)
                                           ELSE <<>>
                          IN  [w EXCEPT
                                 !.st[i].sdFile = IF onSd THEN h1 ELSE @,
                                 !.st[i].flashFile = IF onSd THEN @ ELSE h1,
                                 !.st[i].fileFinished = IF eof THEN TRUE ELSE @,
                                 !.rb[i] = IF bytesRead > 0
                                           THEN wavPush(@, s.channels, s.sampleRate, samples)
                                           ELSE @]
                     ELSE w
                ELSE w
          IN  IF w1.st[i].fileFinished /\ availableForRead(w1.rb[i]) = 0
              THEN [w1 EXCEPT !.st[i].stopRequested = TRUE]
              ELSE w1

\* The iteration with a read that returns what the file has at its
\* position.
fillOne(w, i) == fillOneRead(w, i, FALSE)

\* Slot i is about to make a read() with bytes left in its file.
readsMore(w, i) ==
    LET s == w.st[i]
        h == IF s.type = STREAM_TYPE_WAV_FLASH THEN s.flashFile ELSE s.sdFile
    IN  /\ s.active /\ ~s.fileFinished /\ h.open
        /\ \/ s.type = STREAM_TYPE_MP3_SD /\ availableForWrite(w.rb[i]) > MP3_MARGIN
           \/ /\ s.type \in {STREAM_TYPE_WAV_SD, STREAM_TYPE_WAV_FLASH}
              /\ availableForWrite(w.rb[i]) > WAV_MARGIN
        /\ available(FileAt(h.name), h.pos) > 0

\* fillStreamBuffers() with the reads of the slots of Z returning 0.
RECURSIVE fillFromRead(_, _, _)
fillFromRead(w, i, Z) ==
    IF i >= MAX_STREAMS THEN w
    ELSE Only({fillFromRead(w1, i + 1, Z) : w1 \in {fillOneRead(w, i, i \in Z)}})

\* fillStreamBuffers(): slots 0 .. MAX_STREAMS - 1 in order.
RECURSIVE fillFrom(_, _)
fillFrom(w, i) ==
    IF i >= MAX_STREAMS THEN w
    ELSE Only({fillFrom(w1, i + 1) : w1 \in {fillOne(w, i)}})

fillStreamBuffers(w) == fillFrom(w, 0)

\* Mutant of mixOne: one pop from every active stream that has a sample.
mixOne_popOne(w, i) ==
    IF w.st[i].active /\ availableForRead(w.rb[i]) >= 1
    THEN [w EXCEPT !.rb[i] = pop(@).rb]
    ELSE w

\* Mixer::processSample, the stream loop: two pops from every active
\* stream that has at least two samples.
mixOne(w, i) ==
    IF w.st[i].active /\ availableForRead(w.rb[i]) >= 2
    THEN [w EXCEPT !.rb[i] = pop(pop(@).rb).rb]
    ELSE w

RECURSIVE mixFrom(_, _)
mixFrom(w, i) ==
    IF i >= MAX_STREAMS THEN w
    ELSE Only({mixFrom(w1, i + 1) : w1 \in {mixOne(w, i)}})

processSample(w) == mixFrom(w, 0)

\* Mutant of stopCheckOne: the second test does not look at the buffer.
stopCheckOne_noDrain(w, i) ==
    LET w1 == IF w.st[i].stopRequested
              THEN [stopStream(w, i) EXCEPT !.st[i].stopRequested = FALSE]
              ELSE w
    IN  IF w1.st[i].active /\ w1.st[i].fileFinished
        THEN stopStream(w1, i)
        ELSE w1

\* Mutant of stopCheckOne: stopRequested is left set after the stop.
stopCheckOne_keepFlag(w, i) ==
    LET w1 == IF w.st[i].stopRequested THEN stopStream(w, i) ELSE w
    IN  IF w1.st[i].active /\ w1.st[i].fileFinished
           /\ availableForRead(w1.rb[i]) = 0
        THEN stopStream(w1, i)
        ELSE w1

\* The stop check at the end of loop() (CHIRP_Audio.ino:353-367), slot i.
stopCheckOne(w, i) ==
    LET w1 == IF w.st[i].stopRequested
              THEN [stopStream(w, i) EXCEPT !.st[i].stopRequested = FALSE]
              ELSE w
    IN  IF w1.st[i].active /\ w1.st[i].fileFinished
           /\ availableForRead(w1.rb[i]) = 0
        THEN stopStream(w1, i)
        ELSE w1

RECURSIVE stopCheckFrom(_, _)
stopCheckFrom(w, i) ==
    IF i >= MAX_STREAMS THEN w
    ELSE Only({stopCheckFrom(w1, i + 1) : w1 \in {stopCheckOne(w, i)}})

loopStopCheck(w) == stopCheckFrom(w, 0)

\* ------------------------------------------------------------------------
\* Fixed-width arithmetic of the mixer and the tone generator.
\* A uint32_t is the pair <<hi, lo>> of its 16-bit halves; int32_t values
\* are plain integers.
\* ------------------------------------------------------------------------
SAMPLE_RATE == 44100
INT16_MAX == 32767
INT16_MIN == -32768
INT32_MAX == 2147483647
HALF == 65536

Min(a, b) == IF a < b THEN a ELSE b

\* v >> 8 of an int32_t (arithmetic shift).
shr8(v) == v \div 256

\* The low 32 bits of hi * 2^16 + lo, for any integers hi, lo.
u32Norm(hi, lo) == <<(hi + (lo \div HALF)) % HALF, lo % HALF>>
\* (uint32_t)k of an int32_t k.
u32FromInt(k) == u32Norm(k \div HALF, k % HALF)
\* (int32_t)a of a uint32_t a.
u32ToInt32(a) ==
    IF a[1] >= 32768 THEN (a[1] - HALF) * HALF + a[2] ELSE a[1] * HALF + a[2]
u32Add(a, b) == u32Norm(a[1] + b[1], a[2] + b[2])
\* a + k in uint32_t, k an int32_t converted to unsigned.
u32AddInt(a, k) == u32Add(a, u32FromInt(k))
u32Lt(a, b) == a[1] < b[1] \/ (a[1] = b[1] /\ a[2] < b[2])
u32Zero == <<0, 0>>
\* The low 32 bits of a * b, 0 <= a < 2^31 and 0 < b < 2^16.
mul32(a, b) ==
    LET ah == a \div HALF
        al == a % HALF
        X  == al * (b \div 256)
        Y  == al * (b % 256)
    IN  u32Norm(((ah * b) % HALF) + (X \div 256) + (Y \div HALF),
                ((X % 256) * 256) + (Y % HALF))

\* Unnormalised pairs (hi of any size) for the remainders of a division.
wGe(a, b) == ~u32Lt(a, b)
wSub(a, b) ==
    LET lo == a[2] - b[2] IN <<(a[1] - b[1]) + (lo \div HALF), lo % HALF>>
wDouble(a, bit) ==
    LET lo == (2 * a[2]) + bit IN <<(2 * a[1]) + (lo \div HALF), lo % HALF>>
u32Bit(a, k) ==
    IF k >= 16 THEN (a[1] \div (2 ^ (k - 16))) % 2 ELSE (a[2] \div (2 ^ k)) % 2

\* n / t of two uint32_t, t # 0, by binary long division from bit k down;
\* qr = <<quotient, remainder>>.
RECURSIVE divFrom(_, _, _, _)
divFrom(n, t, k, qr) ==
    IF k < 0 THEN qr[1]
    ELSE Only({divFrom(n, t, k - 1, next) :
               next \in {LET r == wDouble(qr[2], u32Bit(n, k))
                         IN  IF wGe(r, t) THEN <<wDouble(qr[1], 1), wSub(r, t)>>
                             ELSE <<wDouble(qr[1], 0), r>>}})

\* n / t: by halves when t < 2^15, bit by bit otherwise.
u32Div(n, t) ==
    IF u32Lt(n, t) THEN u32Zero
    ELSE IF t[1] = 0 /\ t[2] < 32768
    THEN <<n[1] \div t[2], (((n[1] % t[2]) * HALF) + n[2]) \div t[2]>>
    ELSE divFrom(n, t, 31, <<u32Zero, u32Zero>>)

\* ------------------------------------------------------------------------
\* Mixer::processSample, the arithmetic of one frame.
\* ------------------------------------------------------------------------
SINE_LUT ==
    <<0, 3, 6, 9, 12, 15, 18, 21, 24, 27, 30, 33, 36, 39, 42, 45,
      48, 51, 54, 57, 60, 63, 65, 68, 71, 73, 76, 78, 81, 83, 85, 88,
      90, 92, 94, 96, 98, 100, 102, 104, 106, 107, 109, 110, 112, 113, 115, 116,
      117, 118, 120, 121, 122, 122, 123, 124, 125, 125, 126, 126, 126, 127, 127, 127,
      127, 127, 127, 127, 126, 126, 126, 125, 125, 124, 123, 122, 122, 121, 120, 118,
      117, 116, 115, 113, 112, 110, 109, 107, 106, 104, 102, 100, 98, 96, 94, 92,
      90, 88, 85, 83, 81, 78, 76, 73, 71, 68, 65, 63, 60, 57, 54, 51,
      48, 45, 42, 39, 36, 33, 30, 27, 24, 21, 18, 15, 12, 9, 6, 3,
      0, -3, -6, -9, -12, -15, -18, -21, -24, -27, -30, -33, -36, -39, -42, -45,
      -48, -51, -54, -57, -60, -63, -65, -68, -71, -73, -76, -78, -81, -83, -85, -88,
      -90, -92, -94, -96, -98, -100, -102, -104, -106, -107, -109, -110, -112, -113, -115, -116,
      -117, -118, -120, -121, -122, -122, -123, -124, -125, -125, -126, -126, -126, -127, -127, -127,
      -127, -127, -127, -127, -126, -126, -126, -125, -125, -124, -123, -122, -122, -121, -120, -118,
      -117, -116, -115, -113, -112, -110, -109, -107, -106, -104, -102, -100, -98, -96, -94, -92,
      -90, -88, -85, -83, -81, -78, -76, -73, -71, -68, -65, -63, -60, -57, -54, -51,
      -48, -45, -42, -39, -36, -33, -30, -27, -24, -21, -18, -15, -12, -9, -6, -3>>

\* globals.cpp:13; no code assigns it.
masterAttenMultiplier == (97 * 256) \div 100

\* (int32_t)(volume * 256.0f), AudioStream::volume held as the level n of
\* the float n / 99.0f (every setter stores a value of 0.0f .. 1.0f).
volFixedOf(volume) == (volume * 256) \div 99

\* Mutant of elapsedOf: no wrap-around, 0 when the clock reads less than
\* startTime.
elapsedOf_noWrap(t, startTime) ==
    IF u32Lt(u32FromInt(t), u32FromInt(startTime)) THEN u32Zero
    ELSE wSub(u32FromInt(t), u32FromInt(startTime))

\* uint32_t elapsed = millis() - startTime (part_005:383).  The clock and
\* startTime are held as the int32_t with the same 32 bits, so the
\* millisecond after -1 (2^32 - 1) is 0.
elapsedOf(t, startTime) ==
    u32Norm(u32FromInt(t)[1] - u32FromInt(startTime)[1],
            u32FromInt(t)[2] - u32FromInt(startTime)[2])

\* The stream gain of part_005:380-390 at time now.
gainOf(s, t) ==
    LET elapsed  == elapsedOf(t, s.startTime)
        ramp     == Min((elapsed[2] * 256) \div 50, 256)
        volFixed == IF u32Lt(elapsed, <<0, 50>>)
                    THEN shr8(volFixedOf(s.volume) * ramp)
                    ELSE volFixedOf(s.volume)
    IN  shr8(volFixed * masterAttenMultiplier)

\* What slot i adds to <<mixedLeft, mixedRight>>.
mixedOne(w, i) ==
    IF w.st[i].active /\ availableForRead(w.rb[i]) >= 2
    THEN LET l    == pop(w.rb[i]).ret
             r    == pop(pop(w.rb[i]).rb).ret
             gain == gainOf(w.st[i], w.now)
         IN  <<shr8(l * gain), shr8(r * gain)>>
    ELSE <<0, 0>>

RECURSIVE mixedFrom(_, _, _)
mixedFrom(w, i, acc) ==
    IF i >= MAX_STREAMS THEN acc
    ELSE Only({mixedFrom(w, i + 1, <<acc[1] + m[1], acc[2] + m[2]>>) :
               m \in {mixedOne(w, i)}})

\* ChirpState, part_005:137-148.
InitChirp ==
    [active |-> FALSE, phase |-> u32Zero, phaseInc |-> u32Zero,
     targetInc |-> u32Zero, sweepStep |-> 0, samplesLeft |-> u32Zero,
     volume |-> 0]

\* The tone sample of this frame (0 when the generator adds nothing).
chirpSample(c) ==
    IF c.active /\ c.samplesLeft # u32Zero
    THEN LET index == c.phase[1] \div 256
         IN  shr8((SINE_LUT[index + 1] * 256) * c.volume)
    ELSE 0

\* The generator after this frame.
chirpAdvance(c) ==
    IF ~c.active THEN c
    ELSE IF c.samplesLeft = u32Zero THEN [c EXCEPT !.active = FALSE]
    ELSE LET inc1 == IF c.sweepStep # 0 THEN u32AddInt(c.phaseInc, c.sweepStep)
                     ELSE c.phaseInc
             inc2 == IF c.sweepStep > 0 /\ u32Lt(c.targetInc, inc1)
                     THEN c.targetInc ELSE inc1
             inc3 == IF c.sweepStep < 0 /\ u32Lt(inc2, c.targetInc)
                     THEN c.targetInc ELSE inc2
         IN  [c EXCEPT !.phase = u32Add(c.phase, c.phaseInc),
                       !.phaseInc = inc3,
                       !.samplesLeft = u32AddInt(@, -1)]

\* applyFastLimiter on one channel, and the conversion of write16.
applyFastLimiter_wrap(v) == ((v + 32768) % 65536) - 32768
applyFastLimiter(v) ==
    IF v > INT16_MAX THEN INT16_MAX ELSE IF v < INT16_MIN THEN INT16_MIN ELSE v
i32_to_i16(v) ==
    IF v > INT16_MAX THEN INT16_MAX ELSE IF v < INT16_MIN THEN INT16_MIN ELSE v

NoFrame ==
    [parts |-> [i \in Slots |-> <<0, 0>>], tone |-> 0, mixed |-> <<0, 0>>,
     out |-> <<0, 0>>]

\* What each slot and the tone generator add to this frame, the
\* accumulators before the limiter, and the frame handed to i2s.write16.
mixFrame(w, c) ==
    LET streamsSum == mixedFrom(w, 0, <<0, 0>>)
        sample     == chirpSample(c)
        mixed      == <<streamsSum[1] + sample, streamsSum[2] + sample>>
    IN  [parts |-> [i \in Slots |-> mixedOne(w, i)],
         tone |-> sample, mixed |-> mixed,
         out |-> <<i32_to_i16(applyFastLimiter(mixed[1])),
                   i32_to_i16(applyFastLimiter(mixed[2]))>>]

\* ------------------------------------------------------------------------
\* playChirp(startFreq, endFreq, durationMs, vol), part_005:449-471.
\* ------------------------------------------------------------------------
\* (uint32_t)(freq * incPerHz), incPerHz = 2^32 / SAMPLE_RATE, for
\* 0 <= freq < 2^15: the integer part of freq * 2^32 / 44100.
freqInc(freq) ==
    LET q == freq * HALF
        r == q % SAMPLE_RATE
    IN  <<q \div SAMPLE_RATE, (r * 16384) \div 11025>>

\* x / 1000 in int (truncation toward zero).
div1000(x) == IF x >= 0 THEN x \div 1000 ELSE -((-x) \div 1000)

\* The values (durationMs * SAMPLE_RATE) / 1000 can take: the product is
\* an int; when it overflows the behaviour is undefined and the result is
\* either the one of the wrapped product or the one of the exact product.
totalSamplesOf(durationMs) ==
    {u32FromInt(div1000(u32ToInt32(mul32(durationMs, SAMPLE_RATE))))}
    \cup (IF durationMs > INT32_MAX \div SAMPLE_RATE
          THEN {u32FromInt((durationMs * 441) \div 10)} ELSE {})

\* (int32_t)((double)(endInc - startInc) / (double)totalSamples).
stepOf_unsigned(startInc, endInc, totalSamples) ==
    IF totalSamples = u32Zero THEN 0
    ELSE u32ToInt32(u32Div(IF u32Lt(endInc, startInc) THEN wSub(startInc, endInc)
                           ELSE wSub(endInc, startInc), totalSamples))

stepOf(startInc, endInc, totalSamples) ==
    IF totalSamples = u32Zero THEN 0
    ELSE IF u32Lt(endInc, startInc)
    THEN -u32ToInt32(u32Div(wSub(startInc, endInc), totalSamples))
    ELSE u32ToInt32(u32Div(wSub(endInc, startInc), totalSamples))

\* The generator after playChirp, totalSamples one of totalSamplesOf.
playChirp_keepPhase(c, startFreq, endFreq, durationMs, vol, totalSamples) ==
    IF durationMs <= 0 THEN c
    ELSE [active      |-> TRUE,
          phase       |-> c.phase,
          phaseInc    |-> freqInc(startFreq),
          targetInc   |-> freqInc(endFreq),
          sweepStep   |-> stepOf(freqInc(startFreq), freqInc(endFreq), totalSamples),
          samplesLeft |-> totalSamples,
          volume      |-> vol % 256]

playChirp(c, startFreq, endFreq, durationMs, vol, totalSamples) ==
    IF durationMs <= 0 THEN c
    ELSE LET startInc == freqInc(startFreq)
             endInc   == freqInc(endFreq)
         IN  [active      |-> TRUE,
              phase       |-> u32Zero,
              phaseInc    |-> startInc,
              targetInc   |-> endInc,
              sweepStep   |-> stepOf(startInc, endInc, totalSamples),
              samplesLeft |-> totalSamples,
              volume      |-> vol % 256]

\* ------------------------------------------------------------------------
\* State
\* ------------------------------------------------------------------------
VARIABLES
    streams,          \* AudioStream streams[MAX_STREAMS]
    streamBuffers,    \* RingBuffer streamBuffers[MAX_STREAMS]
    mp3DecoderInUse,  \* bool mp3DecoderInUse[MAX_MP3_DECODERS]
    call,             \* the startStream call of the last step, if it was one:
                      \* arguments, return value, resource operations
    nStarts,          \* number of startStream calls made so far
    fifo,             \* harness: samples pushed and not yet popped
    rbCall,           \* harness: the last ring-buffer call and what it returned
    now,              \* millis()
    norm,             \* normalisation harness: the last block and its context
    chirp,            \* volatile ChirpState chirp
    frame,            \* the last frame of processSample: accumulators, output
    tone,             \* the last playChirp call and the frames it has sounded in
    arm,              \* playChirp and the mixer access by access: program
                      \* counters, registers, the call each field stems from
    spsc,             \* push and the pops of the mixer access by access on
                      \* streamBuffers[0]: program counters and registers
    ctl               \* the two loops: g_allowAudio, isRunning of loop1(), the
                      \* position of loop() in its iteration, and what the
                      \* last step did

coreVars == <<streams, streamBuffers, mp3DecoderInUse, call, nStarts, fifo, rbCall, now>>

toneVars == <<chirp, frame, tone>>

auxVars == <<norm, toneVars, arm, spsc, ctl>>

vars == <<coreVars, auxVars>>

\* The globals as the operators above take them.
World ==
    [st |-> streams, rb |-> streamBuffers, pool |-> mp3DecoderInUse, tr |-> <<>>,
     now |-> now]

NoCall == [op |-> "none", slot |-> -1, filename |-> "", ret |-> FALSE, tr |-> <<>>]

NoRbCall == [op |-> "none", sample |-> 0, ret |-> FALSE, expect |-> 0]

NoNorm == [kind |-> "none", channels |-> 0, sampleRate |-> 0,
           block |-> <<>>, before |-> <<>>]

\* The arguments of the last playChirp call, whether a tone was sounding
\* when it was made, whether it is the last step taken, and for the last
\* arming (a call that wrote the generator): the sample count it stored and
\* the number of frames the tone has been mixed into since.
NoTone == [startFreq |-> 0, endFreq |-> 0, durationMs |-> 0, vol |-> 0,
           over |-> FALSE, fresh |-> FALSE, total |-> u32Zero, frames |-> 0]

SetWorld(w) ==
    /\ streams' = w.st
    /\ streamBuffers' = w.rb
    /\ mp3DecoderInUse' = w.pool

InitCore ==
    /\ streams = initAudioSystem.st
    /\ streamBuffers = initAudioSystem.rb
    /\ mp3DecoderInUse = initAudioSystem.pool
    /\ call = NoCall
    /\ nStarts = 0
    /\ fifo = <<>>
    /\ rbCall = NoRbCall
    /\ now = 0

\* pcP, pcM: the next access of playChirp (0: no call running) and of the
\* tone section of processSample (0: before the test of chirp.active);
\* next: the values the running call stores; r, rt: the value the mixer
\* last read of each field and the call it stems from; tags: the call each
\* field of chirp stems from (0: the initialiser); seen: the calls whose
\* values the mixer has used in the current frame.
NoArm ==
    [pcP |-> 0, pcM |-> 0, calls |-> 0, frames |-> 0, next |-> InitChirp,
     r |-> InitChirp, rt |-> [f \in DOMAIN InitChirp |-> 0],
     tags |-> [f \in DOMAIN InitChirp |-> 0], seen |-> {}, sample |-> 0]

\* w, r: the producer inside push and the consumer inside the stream loop
\* of processSample (pc 0: outside), with their local values; pushes: the
\* number of push calls begun; live: the slots that hold a sample stored
\* and not yet read; got, expect: the sample the last pop read and the one
\* that was due; overwrote: a store hit a slot of live.
\* io: the I/O core inside stopStream / startStream on slot 0 (pc "idle":
\* outside), the call it is in and the stream the call ends with; calls:
\* the calls begun; started: the last call was a startStream that returned
\* true; due: samples pushed minus samples popped since it returned;
\* clearInPop: a store of clear() was made while the mixer had passed its
\* test and not finished its pops; popInactive: the mixer read a sample or
\* stored readPos while active was false.
\* tested: the call between whose stores of active = true and of startTime
\* the mixer tested active for its current frame (0: outside such a
\* window); stale: a frame tested in the window of a second or later call
\* was finished inside it, with the startTime of the playback before.
NoSpsc ==
    [w |-> [pc |-> 0, sample |-> 0, nextWrite |-> 0, idx |-> 0],
     r |-> [pc |-> 0, wp |-> 0, idx |-> 0, rp |-> 0],
     pushes |-> 0, live |-> {}, got |-> 0, expect |-> 0, overwrote |-> FALSE,
     io |-> [pc |-> "idle", op |-> "none", filename |-> "", next |-> InitStream],
     calls |-> 0, started |-> FALSE, due |-> 0,
     clearInPop |-> FALSE, popInactive |-> FALSE,
     tested |-> 0, stale |-> FALSE]

\* The last stream torn down by a stop check: its slot, what its buffer
\* held when stopStream was called, and the test that led to the call.
NoTorn == [slot |-> -1, avail |-> 0, by |-> "none"]

\* g_allowAudio (CHIRP_Audio.ino:84) and isRunning (part_005:551) with
\* their initialisers; written: parity of the number of i2s.write16 calls;
\* phase, idx: where core 0 is in setup() or in an iteration of loop();
\* passEnd, iterEnd: the last step ended a fillStreamBuffers pass / an
\* iteration; marked: the slots the last pass set stopRequested on; zero:
\* the slots whose read returned no byte in the last pass although the
\* file had bytes left.
\* scan: the chunk scan of a startStream call: pc (idle, loop, exit,
\* returned), the tier and the file, the file position, the locals chunkID
\* and chunkSize, the lock held, the parity of the number of iterations.
NoScan ==
    [pc |-> "idle", tier |-> "none", file |-> [size |-> 0, words |-> <<>>], pos |-> 0,
     chunkID |-> <<0, 0>>, chunkSize |-> <<0, 0>>, lock |-> "none", iter |-> 0]

\* dec: a fillStreamBuffers pass taken slot by slot: pc (idle, pass,
\* write: inside the decoder's write()), idx the slot of the iteration,
\* cur the value of currentDecodingStream (part_005:159), blocks the
\* callbacks the running write() has still to make, stray the parity of
\* the number of callbacks made outside a write().
NoDec == [pc |-> "idle", idx |-> 0, cur |-> -1, blocks |-> 0, stray |-> 0]

\* lk: the lock and file operations the running call of startStream,
\* stopStream or fillStreamBuffers has still to make, in program order
\* (<<>>: no call running), the locks core 0 holds and the number of
\* calls made.
NoLk == [ops |-> <<>>, held |-> {}, calls |-> 0]

NoCtl ==
    [g_allowAudio |-> FALSE, isRunning |-> FALSE, written |-> 0,
     phase |-> "setup", idx |-> 0, passEnd |-> FALSE, iterEnd |-> FALSE,
     marked |-> {}, torn |-> NoTorn, zero |-> {}, scan |-> NoScan, dec |-> NoDec,
     lk |-> NoLk]

InitTone ==
    /\ chirp = InitChirp
    /\ frame = NoFrame
    /\ tone = NoTone
    /\ arm = NoArm
    /\ spsc = NoSpsc
    /\ ctl = NoCtl

Init ==
    /\ InitCore
    /\ norm = NoNorm
    /\ InitTone

\* ------------------------------------------------------------------------
\* The entry points of the core, each call one step.
\* ------------------------------------------------------------------------
StartStream(i, filename) ==
    LET r == startStream(World, i, filename)
    IN  /\ nStarts < MaxStarts
        /\ nStarts' = nStarts + 1
        /\ SetWorld(r.w)
        /\ call' = [op |-> "startStream", slot |-> i, filename |-> filename,
                    ret |-> r.ret, tr |-> r.w.tr]
        /\ UNCHANGED <<fifo, rbCall, now, auxVars>>

StopStream(i) ==
    LET w == stopStream(World, i)
    IN  /\ SetWorld(w)
        /\ call' = NoCall
        /\ UNCHANGED <<nStarts, fifo, rbCall, now, auxVars>>

FillStreamBuffers ==
    /\ SetWorld(fillStreamBuffers(World))
    /\ call' = NoCall
    /\ UNCHANGED <<nStarts, fifo, rbCall, now, auxVars>>

\* One call of Mixer::processSample: the stream loop, the tone generator,
\* the limiter and the write of the frame.
ProcessSampleCore ==
    /\ SetWorld(processSample(World))
    /\ frame' = mixFrame(World, chirp)
    /\ chirp' = chirpAdvance(chirp)
    /\ tone' = [tone EXCEPT
                  !.frames = IF chirp.active /\ chirp.samplesLeft # u32Zero
                             THEN @ + 1 ELSE @,
                  !.fresh = FALSE]
    /\ call' = NoCall
    /\ UNCHANGED <<nStarts, fifo, rbCall, now, norm, arm, spsc>>

ProcessSample == ProcessSampleCore /\ UNCHANGED ctl

\* One call of playChirp, as the CHRP command makes it.
PlayChirpCore(startFreq, endFreq, durationMs, vol) ==
    /\ \E totalSamples \in totalSamplesOf(durationMs) :
          chirp' = playChirp(chirp, startFreq, endFreq, durationMs, vol, totalSamples)
    /\ tone' = [startFreq |-> startFreq, endFreq |-> endFreq,
                durationMs |-> durationMs, vol |-> vol,
                over |-> chirp.active /\ chirp.samplesLeft # u32Zero,
                fresh |-> TRUE,
                total |-> IF durationMs <= 0 THEN tone.total ELSE chirp'.samplesLeft,
                frames |-> IF durationMs <= 0 THEN tone.frames ELSE 0]
    /\ call' = NoCall
    /\ UNCHANGED <<streams, streamBuffers, mp3DecoderInUse, nStarts, fifo, rbCall, now, norm,
                   frame, arm, spsc>>

PlayChirp(startFreq, endFreq, durationMs, vol) ==
    PlayChirpCore(startFreq, endFreq, durationMs, vol) /\ UNCHANGED ctl

LoopStopCheck ==
    /\ SetWorld(loopStopCheck(World))
    /\ call' = NoCall
    /\ UNCHANGED <<nStarts, fifo, rbCall, now, auxVars>>

Next ==
    \/ \E i \in Slots, filename \in Paths : StartStream(i, filename)
    \/ \E i \in Slots : StopStream(i)
    \/ FillStreamBuffers
    \/ ProcessSample
    \/ LoopStopCheck

Spec == Init /\ [][Next]_vars

\* ------------------------------------------------------------------------
\* Source selection and start times: startStream with every combination of
\* flash prefix and .mp3 extension, fillStreamBuffers, and a millisecond
\* clock.
\* ------------------------------------------------------------------------
MaxNow == 1

PathsSel == {PathFlashA, PathFlashMp3, PathSdMp3, PathSdWav}

Tick ==
    /\ now < MaxNow
    /\ now' = now + 1
    /\ call' = NoCall
    /\ UNCHANGED <<streams, streamBuffers, mp3DecoderInUse, nStarts, fifo, rbCall, auxVars>>

NextStart ==
    \/ \E i \in Slots, filename \in PathsSel : StartStream(i, filename)
    \/ FillStreamBuffers
    \/ Tick

SpecStart == Init /\ [][NextStart]_vars

\* ------------------------------------------------------------------------
\* Normalisation harness: one stream format (WAV reader or MP3 callback,
\* channel count, sample rate) chosen at the start, then blocks of source
\* samples handed to the push loops of that format on streamBuffers[0]
\* whenever the buffer has room for the largest expansion of the block.
\* ------------------------------------------------------------------------
MaxBlock == 2

RECURSIVE SeqsUpTo(_, _)
SeqsUpTo(S, n) ==
    IF n = 0 THEN {<<>>}
    ELSE LET shorter == SeqsUpTo(S, n - 1)
         IN  shorter \cup {Append(q, x) : q \in shorter, x \in S}

Blocks == SeqsUpTo(HarnessSamples, MaxBlock)

InitNorm ==
    /\ InitCore
    /\ InitTone
    /\ \E kind \in {"wav", "mp3"}, channels \in {1, 2}, sampleRate \in {44100, 22050} :
          norm = [NoNorm EXCEPT !.kind = kind, !.channels = channels,
                                !.sampleRate = sampleRate]

NormBlock(block) ==
    /\ availableForWrite(streamBuffers[0]) >= 4 * Len(block)
    /\ LET w == IF norm.kind = "wav"
                THEN [World EXCEPT !.rb[0] = wavPush(@, norm.channels,
                                                     norm.sampleRate, block)]
                ELSE mp3DataCallback(World, 0, norm.channels, norm.sampleRate, block)
       IN  SetWorld(w)
    /\ norm' = [norm EXCEPT !.block = block, !.before = contents(streamBuffers[0])]
    /\ UNCHANGED <<call, nStarts, fifo, rbCall, now, toneVars, arm, spsc, ctl>>

\* The mixer side empties the buffer.
NormDrain ==
    /\ availableForRead(streamBuffers[0]) > 0
    /\ streamBuffers' = [streamBuffers EXCEPT ![0] = pop(@).rb]
    /\ norm' = [norm EXCEPT !.block = <<>>, !.before = contents(streamBuffers'[0])]
    /\ UNCHANGED <<streams, mp3DecoderInUse, call, nStarts, fifo, rbCall, now, toneVars,
                   arm, spsc, ctl>>

NextNorm ==
    \/ \E block \in Blocks : NormBlock(block)
    \/ NormDrain

SpecNorm == InitNorm /\ [][NextNorm]_vars

\* ------------------------------------------------------------------------
\* The two normalisation paths side by side: the same blocks, of one
\* channel count and source rate chosen at the start, go through the WAV
\* reader's loops into streamBuffers[0] and through mp3DataCallback into
\* streamBuffers[1], at any fill level; the mixer side pops frames from
\* both.
\* ------------------------------------------------------------------------
MaxAgreeBlock == 3

\* The blocks handed to both paths: the first n samples of 1, 2, 3, ...
AgreeBlocks == {[k \in 1 .. n |-> k] : n \in 1 .. MaxAgreeBlock}

InitAgree ==
    /\ InitCore
    /\ InitTone
    /\ \E channels \in {1, 2}, sampleRate \in {44100, 22050} :
          norm = [NoNorm EXCEPT !.kind = "both", !.channels = channels,
                                !.sampleRate = sampleRate]

AgreeBlock(block) ==
    /\ LET w == mp3DataCallback(
                   [World EXCEPT !.rb[0] = wavPush(@, norm.channels,
                                                   norm.sampleRate, block)],
                   1, norm.channels, norm.sampleRate, block)
       IN  SetWorld(w)
    /\ norm' = [norm EXCEPT !.block = block, !.before = contents(streamBuffers[0])]
    /\ UNCHANGED <<call, nStarts, fifo, rbCall, now, toneVars, arm, spsc, ctl>>

\* The mixer takes a frame from each buffer.
AgreeDrain ==
    /\ availableForRead(streamBuffers[0]) >= 2
    /\ streamBuffers' = [streamBuffers EXCEPT ![0] = pop(pop(@).rb).rb,
                                              ![1] = pop(pop(@).rb).rb]
    /\ norm' = [norm EXCEPT !.block = <<>>, !.before = contents(streamBuffers'[0])]
    /\ UNCHANGED <<streams, mp3DecoderInUse, call, nStarts, fifo, rbCall, now, toneVars,
                   arm, spsc, ctl>>

NextAgree ==
    \/ \E block \in AgreeBlocks : AgreeBlock(block)
    \/ AgreeDrain

SpecAgree == InitAgree /\ [][NextAgree]_vars

\* ------------------------------------------------------------------------
\* Playback to the end: streams are started and never stopped by a
\* command; loop() on core 0 keeps calling fillStreamBuffers and its stop
\* check, loop1() on core 1 keeps calling Mixer::processSample
\* (g_allowAudio set).
\* ------------------------------------------------------------------------
MaxLiveStarts == 2

PathsLive == {PathFlashA, PathSdMp3, PathSdOdd}

StartStreamLive(i, filename) ==
    /\ nStarts < MaxLiveStarts
    /\ StartStream(i, filename)

NextLive ==
    \/ \E i \in Slots, filename \in PathsLive : StartStreamLive(i, filename)
    \/ FillStreamBuffers
    \/ ProcessSample
    \/ LoopStopCheck

SpecLive ==
    /\ Init /\ [][NextLive]_vars
    /\ WF_vars(FillStreamBuffers)
    /\ WF_vars(ProcessSample)
    /\ WF_vars(LoopStopCheck)

\* ------------------------------------------------------------------------
\* The mixer with full-scale streams, the VOL command, the clock and the
\* tone generator.
\* ------------------------------------------------------------------------
\* Streams are started on idle slots.  The clock advances by TickMs up to MaxMixNow, past the 50 ms fade-in.
TickMs == 25
MaxMixNow == 50
\* The VOL levels and the file used, and the number of frames mixed with
\* one tone.
VolLevels == {50}
PathsMix == {PathSdLoud}
MaxMixFrames == 2

\* "VOL:n" (serial_commands.cpp:292-302): every stream gets n / 99.0f,
\* n clamped to 0 .. 99.
SetVolumeAll(n) ==
    LET volume == IF n < 0 THEN 0 ELSE IF n > 99 THEN 99 ELSE n
    IN  /\ streams' = [i \in Slots |-> [streams[i] EXCEPT !.volume = volume]]
        /\ call' = NoCall
        /\ UNCHANGED <<streamBuffers, mp3DecoderInUse, nStarts, fifo, rbCall, now,
                       auxVars>>

TickMix ==
    /\ now + TickMs <= MaxMixNow
    /\ now' = now + TickMs
    /\ call' = NoCall
    /\ UNCHANGED <<streams, streamBuffers, mp3DecoderInUse, nStarts, fifo, rbCall,
                   auxVars>>

NextMix ==
    \/ \E i \in Slots, filename \in PathsMix :
          ~streams[i].active /\ StartStream(i, filename)
    \/ \E n \in VolLevels : SetVolumeAll(n)
    \/ PlayChirp(11025, 11025, 1, 255)
    \/ TickMix
    \/ FillStreamBuffers
    \/ (tone.frames < MaxMixFrames /\ ProcessSample)

SpecMix == Init /\ [][NextMix]_vars

\* ------------------------------------------------------------------------
\* The fade-in across the wrap of millis(): the clock starts at 0 or
\* FadeEpoch milliseconds before 2^32, a full-scale stream is started,
\* filled and mixed while the clock advances by FadeTickMs.
\* ------------------------------------------------------------------------
FadeEpoch == 30
MaxFadeNow == 30
FadeTickMs == 7
MaxFadeStarts == 2

InitFade ==
    /\ streams = initAudioSystem.st
    /\ streamBuffers = initAudioSystem.rb
    /\ mp3DecoderInUse = initAudioSystem.pool
    /\ call = NoCall /\ nStarts = 0 /\ fifo = <<>> /\ rbCall = NoRbCall
    /\ now \in {0, -FadeEpoch}
    /\ norm = NoNorm
    /\ InitTone

TickFade ==
    /\ now < MaxFadeNow
    /\ now' = now + FadeTickMs
    /\ call' = NoCall
    /\ UNCHANGED <<streams, streamBuffers, mp3DecoderInUse, nStarts, fifo, rbCall,
                   auxVars>>

NextFade ==
    \/ (nStarts < MaxFadeStarts /\ StartStream(0, PathSdLoud))
    \/ TickFade
    \/ FillStreamBuffers
    \/ ProcessSample

SpecFade == InitFade /\ [][NextFade]_vars

\* ------------------------------------------------------------------------
\* The chunk scan of startStream (part_005:604-624 and 679-694) on files
\* given byte by byte, one loop iteration per step.  A file is a sequence
\* of little-endian 32-bit words, each <<high half, low half>>; all chunk
\* lengths used are multiples of 4, so every position is a word boundary.
\* ------------------------------------------------------------------------
\* The four characters of a chunk id read as a uint32_t.
IdWord(id) ==
    CASE id = "RIFF" -> <<17990, 18770>>
      [] id = "WAVE" -> <<17750, 16727>>
      [] id = "fmt " -> <<8308, 28006>>
      [] id = "LIST" -> <<21587, 18764>>
      [] id = "data" -> <<24948, 24932>>

\* The lengths written into chunk headers: 0, the true length, lengths
\* up to and past the end of the file, and lengths near 2^32
\* (2^32 - 4, 2^32 - 8, 2^32 - 32).
ScanSizes ==
    {<<0, 0>>, <<0, 4>>, <<0, 16>>, <<0, 1000>>,
     <<65535, 65532>>, <<65535, 65528>>, <<65535, 65504>>}

\* A file of 60 bytes: the RIFF preamble, a `fmt ` chunk of 16 bytes, then
\* two chunks of 4 bytes with ids id2, id3 and length fields s2, s3.
ScanFile(id2, s2, id3, s3) ==
    [size  |-> 60,
     words |-> <<IdWord("RIFF"), <<0, 52>>, IdWord("WAVE"),
                 IdWord("fmt "), <<0, 16>>, <<2, 1>>, <<0, 44100>>, <<2, 45328>>, <<16, 4>>,
                 IdWord(id2), s2, <<0, 0>>,
                 IdWord(id3), s3, <<0, 0>>>>]

ScanFiles ==
    {ScanFile(id2, s2, id3, s3) :
       id2 \in {"LIST", "data"}, s2 \in ScanSizes,
       id3 \in {"LIST", "data"}, s3 \in ScanSizes}

scanWord(f, pos) == f.words[(pos \div 4) + 1]

\* seek(position() + chunkSize).  On flash position() is a size_t and the
\* sum is taken modulo 2^32; on the card position() is a uint64_t and
\* the sum is exact.  A target past the end of the file is refused.
scanSeek(tier, f, pos, chunkSize) ==
    LET sum     == u32Add(u32FromInt(pos), chunkSize)
        carried == chunkSize[1] + ((pos + chunkSize[2]) \div HALF) >= HALF
    IN  IF tier = "sd" /\ carried THEN pos
        ELSE IF sum[1] = 0 THEN seek(f, pos, sum[2]) ELSE pos

\* startStream up to the loop: the lock is taken, the file opened, the
\* 44 bytes of WAVHeader read; seek(12) when header.data is not "data".
ScanOpen(tier, f) ==
    /\ ctl.scan.pc = "idle"
    /\ LET afterHeader == readAdvance(f, 0, 44)
           found       == scanWord(f, 36) = IdWord("data")
       IN  ctl' = [ctl EXCEPT !.scan =
                     [NoScan EXCEPT
                        !.pc = IF found THEN "exit" ELSE "loop",
                        !.tier = tier, !.file = f,
                        !.pos = IF found THEN afterHeader ELSE seek(f, afterHeader, 12),
                        !.lock = IF tier = "sd" THEN "sd_mutex" ELSE "flash_mutex"]]
    /\ UNCHANGED <<coreVars, norm, toneVars, arm, spsc>>

\* The test of the while and one iteration: two reads of 4 bytes (a read
\* at the end of the file leaves its variable as it was), then the break
\* or the seek.
ScanStep ==
    /\ ctl.scan.pc = "loop"
    /\ LET sc    == ctl.scan
           f     == sc.file
           av    == available(f, sc.pos)
           id    == IF av >= 4 THEN scanWord(f, sc.pos) ELSE sc.chunkID
           size  == IF av >= 8 THEN scanWord(f, sc.pos + 4) ELSE sc.chunkSize
           after == readAdvance(f, sc.pos, 8)
       IN  ctl' = [ctl EXCEPT !.scan =
                     IF av = 0 THEN [sc EXCEPT !.pc = "exit"]
                     ELSE [sc EXCEPT
                             !.chunkID = id, !.chunkSize = size,
                             !.iter = 1 - @,
                             !.pc = IF id = IdWord("data") THEN "exit" ELSE "loop",
                             !.pos = IF id = IdWord("data") THEN after
                                     ELSE scanSeek(sc.tier, f, after, size)]]
    /\ UNCHANGED <<coreVars, norm, toneVars, arm, spsc>>

\* After the loop: channels, sampleRate and type are set and the lock is
\* released (part_005:626-632, 696-703); startStream runs on to its return.
ScanReturn ==
    /\ ctl.scan.pc = "exit"
    /\ ctl' = [ctl EXCEPT !.scan.pc = "returned", !.scan.lock = "none"]
    /\ UNCHANGED <<coreVars, norm, toneVars, arm, spsc>>

NextScan ==
    \/ \E tier \in {"flash", "sd"}, f \in ScanFiles : ScanOpen(tier, f)
    \/ ScanStep
    \/ ScanReturn

SpecScan ==
    /\ Init /\ [][NextScan]_vars
    /\ WF_vars(ScanStep)
    /\ WF_vars(ScanReturn)

\* ------------------------------------------------------------------------
\* fillStreamBuffers slot by slot, the decoder's write() of an MP3 slot
\* opened up: currentDecodingStream is set, the decoder calls
\* mp3DataCallback up to MaxDecBlocks times, currentDecodingStream is
\* reset.  startStream is called between passes (same core), on two of
\* the slots; the mixer runs at any time.
\* ------------------------------------------------------------------------
MaxDecBlocks == 2

PathsDec == {PathSdMp3, PathSdWav}

decQuiet == <<nStarts, fifo, rbCall, now, norm, toneVars, arm, spsc>>

DecStart(i, filename) ==
    /\ ctl.dec.pc = "idle"
    /\ StartStreamLive(i, filename)

\* fillStreamBuffers() is entered.
DecPassBegin ==
    /\ ctl.dec.pc = "idle"
    /\ ctl' = [ctl EXCEPT !.dec.pc = "pass", !.dec.idx = 0]
    /\ call' = NoCall
    /\ UNCHANGED <<streams, streamBuffers, mp3DecoderInUse, decQuiet>>

\* The iteration for slot idx leads to a write(): part_005:212-246.
decWrites(w, i) ==
    LET s == w.st[i]
    IN  /\ s.active /\ ~s.fileFinished /\ s.type = STREAM_TYPE_MP3_SD
        /\ availableForWrite(w.rb[i]) > MP3_MARGIN
        /\ s.sdFile.open /\ s.decoderIndex # -1
        /\ readAdvance(FileAt(s.sdFile.name), s.sdFile.pos, READ_BYTES) > s.sdFile.pos

\* The iteration for slot idx: up to `currentDecodingStream = i` when it
\* leads to a write(), whole otherwise.
DecSlot ==
    /\ ctl.dec.pc = "pass"
    /\ LET i    == ctl.dec.idx
           next == [ctl.dec EXCEPT !.idx = IF i = MAX_STREAMS - 1 THEN 0 ELSE i + 1,
                                   !.pc = IF i = MAX_STREAMS - 1 THEN "idle" ELSE "pass"]
       IN  IF decWrites(World, i)
           THEN /\ streams' = [streams EXCEPT
                                 ![i].sdFile.pos =
                                    readAdvance(FileAt(streams[i].sdFile.name), @, READ_BYTES)]
                /\ \E n \in 0 .. MaxDecBlocks :
                      ctl' = [ctl EXCEPT !.dec.pc = "write", !.dec.cur = i,
                                         !.dec.blocks = n]
                /\ UNCHANGED <<streamBuffers, mp3DecoderInUse>>
           ELSE /\ SetWorld(fillOneRead(World, i, FALSE))
                /\ ctl' = [ctl EXCEPT !.dec = next]
    /\ call' = NoCall
    /\ UNCHANGED decQuiet

\* The decoder hands one block to mp3DataCallback.
DecCallback ==
    /\ ctl.dec.pc = "write" /\ ctl.dec.blocks > 0
    /\ LET f == FileAt(streams[ctl.dec.idx].sdFile.name)
       IN  SetWorld(mp3DataCallback(World, ctl.dec.cur, f.nChans, f.samprate, <<1, 2>>))
    /\ ctl' = [ctl EXCEPT !.dec.blocks = @ - 1]
    /\ call' = NoCall
    /\ UNCHANGED decQuiet

\* write() returns: currentDecodingStream = -1 and the end of the
\* iteration (part_005:247, 343-345).
DecWriteEnd ==
    /\ ctl.dec.pc = "write" /\ ctl.dec.blocks = 0
    /\ LET i == ctl.dec.idx
           s == streams[i]
       IN  /\ streams' = [streams EXCEPT
                            ![i].stopRequested =
                               IF s.fileFinished /\ availableForRead(streamBuffers[i]) = 0
                               THEN TRUE ELSE @]
           /\ ctl' = [ctl EXCEPT
                        !.dec.cur = -1,
                        !.dec.idx = IF i = MAX_STREAMS - 1 THEN 0 ELSE i + 1,
                        !.dec.pc = IF i = MAX_STREAMS - 1 THEN "idle" ELSE "pass"]
    /\ call' = NoCall
    /\ UNCHANGED <<streamBuffers, mp3DecoderInUse, decQuiet>>

\* mp3DataCallback entered while no write() of fillStreamBuffers runs.
DecStray ==
    /\ ctl.dec.pc # "write"
    /\ SetWorld(mp3DataCallback(World, ctl.dec.cur, 2, 44100, <<1, 2>>))
    /\ ctl' = [ctl EXCEPT !.dec.stray = 1 - @]
    /\ call' = NoCall
    /\ UNCHANGED decQuiet

NextDec ==
    \/ \E i \in {0, 1}, filename \in PathsDec : DecStart(i, filename)
    \/ DecPassBegin
    \/ DecSlot
    \/ DecCallback
    \/ DecWriteEnd
    \/ DecStray
    \/ ProcessSample

SpecDec == Init /\ [][NextDec]_vars

\* ------------------------------------------------------------------------
\* The locks.  Each call of startStream, stopStream and fillStreamBuffers
\* is followed through its lock and file operations: <<"enter", m>> and
\* <<"exit", m>> for mutex_enter_blocking(&m) and mutex_exit(&m),
\* <<"open" | "read" | "seek" | "close", tier>> for an operation on a file
\* of the tier.  DEBUG is not defined (config.h:16).
\* ------------------------------------------------------------------------
PathsLock == {PathFlashA, PathFlashNo, PathSdMp3, PathSdNo, PathSdList}
MaxLockCalls == 3

TierLock(tier) == IF tier = "sd" THEN "sd_mutex" ELSE "flash_mutex"

\* log_message (globals.cpp:47-51).
LogOps == <<<<"enter", "log_mutex">>, <<"exit", "log_mutex">>>>

\* stopStream (part_005:750-784).
stopOps(w, i) ==
    LET s == w.st[i]
    IN  IF ~s.active /\ s.type = STREAM_TYPE_INACTIVE THEN <<>>
        ELSE (IF s.type = STREAM_TYPE_WAV_FLASH
              THEN <<<<"enter", "flash_mutex">>>>
                     \o (IF s.flashFile.open THEN <<<<"close", "flash">>>> ELSE <<>>)
                     \o <<<<"exit", "flash_mutex">>>>
              ELSE IF s.type \in {STREAM_TYPE_WAV_SD, STREAM_TYPE_MP3_SD}
              THEN <<<<"enter", "sd_mutex">>>>
                     \o (IF s.sdFile.open THEN <<<<"close", "sd">>>> ELSE <<>>)
                     \o <<<<"exit", "sd_mutex">>>>
              ELSE <<>>)
             \o LogOps

\* The chunk scan from pos (part_005:612-623, 684-693).
RECURSIVE scanOps(_, _, _)
scanOps(tier, f, pos) ==
    IF available(f, pos) = 0 THEN <<>>
    ELSE LET c     == chunkAt(f, pos)
             after == readAdvance(f, pos, 8)
         IN  <<<<"read", tier>>, <<"read", tier>>>>
               \o (IF c.id = "data" THEN <<>>
                   ELSE <<<<"seek", tier>>>>
                          \o scanOps(tier, f, seek(f, after, after + c.size)))

\* The header read and the search for `data` (part_005:598-624, 676-694).
headerOps(tier, f) ==
    <<<<"read", tier>>>>
      \o (IF chunkAt(f, 36).id = "data" THEN <<>>
          ELSE <<<<"seek", tier>>>> \o scanOps(tier, f, seek(f, readAdvance(f, 0, 44), 12)))

\* The reads of bitsPerSample and blockAlign for the log line
\* (part_005:721-744).
debugOps(tier) ==
    LET two == <<<<"seek", tier>>, <<"read", tier>>, <<"seek", tier>>, <<"read", tier>>>>
    IN  <<<<"enter", TierLock(tier)>>>>
          \o (IF tier = "sd" THEN two \o <<<<"seek", tier>>>> ELSE <<>>)
          \o two \o <<<<"seek", tier>>, <<"exit", TierLock(tier)>>>>

\* Mutant of noDecoderOps: the error return leaves sd_mutex held.
noDecoderOps_keepLock == LogOps \o <<<<"close", "sd">>>>

\* No decoder is free (part_005:654-659).
noDecoderOps == LogOps \o <<<<"close", "sd">>, <<"exit", "sd_mutex">>>>

\* startStream after its stopStream call (part_005:579-747).
openOps(w, i, filename) ==
    LET f    == FileAt(filename)
        tier == IF isFlash(filename) THEN "flash" ELSE "sd"
        wav  == headerOps(tier, f) \o <<<<"exit", TierLock(tier)>>>>
                  \o LogOps \o debugOps(tier) \o LogOps
    IN  <<<<"enter", TierLock(tier)>>, <<"open", tier>>>>
          \o (IF f.kind = "none" THEN LogOps \o <<<<"exit", TierLock(tier)>>>>
              ELSE IF isFlash(filename) THEN wav
              ELSE IF isMP3(filename)
              THEN IF findFreeDecoder(w.pool) = -1 THEN noDecoderOps
                   ELSE <<<<"exit", "sd_mutex">>>> \o LogOps \o LogOps
              ELSE wav)

\* One iteration of fillStreamBuffers (part_005:209-286).
fillOneOps(w, i) ==
    LET s    == w.st[i]
        av   == availableForWrite(w.rb[i])
        tier == IF s.type = STREAM_TYPE_WAV_FLASH THEN "flash" ELSE "sd"
        h    == IF tier = "sd" THEN s.sdFile ELSE s.flashFile
    IN  IF ~s.active \/ s.fileFinished THEN <<>>
        ELSE IF \/ s.type = STREAM_TYPE_MP3_SD /\ av > MP3_MARGIN
                \/ s.type \in {STREAM_TYPE_WAV_SD, STREAM_TYPE_WAV_FLASH} /\ av > WAV_MARGIN
        THEN <<<<"enter", TierLock(tier)>>>>
               \o (IF h.open THEN <<<<"read", tier>>>> ELSE <<>>)
               \o <<<<"exit", TierLock(tier)>>>>
        ELSE <<>>

\* A call is made: what it does to the streams, and the operations it
\* makes on the way.
LockCall(kind, i, filename) ==
    /\ ctl.lk.ops = <<>> /\ ctl.lk.calls < MaxLockCalls
    /\ LET r == startStream(World, i, filename)
       IN  CASE kind = "start" ->
                  /\ SetWorld(r.w)
                  /\ call' = [op |-> "startStream", slot |-> i, filename |-> filename,
                              ret |-> r.ret, tr |-> r.w.tr]
                  /\ ctl' = [ctl EXCEPT !.lk.calls = @ + 1, !.lk.ops =
                               stopOps(World, i) \o openOps(stopStream(World, i), i, filename)]
             [] kind = "stop" ->
                  /\ SetWorld(stopStream(World, i))
                  /\ call' = NoCall
                  /\ ctl' = [ctl EXCEPT !.lk.calls = @ + 1, !.lk.ops = stopOps(World, i)]
             [] kind = "fill" ->
                  /\ SetWorld(fillStreamBuffers(World))
                  /\ call' = NoCall
                  /\ ctl' = [ctl EXCEPT !.lk.calls = @ + 1, !.lk.ops =
                               fillOneOps(World, 0) \o fillOneOps(World, 1)
                                 \o fillOneOps(World, 2)]
    /\ UNCHANGED <<nStarts, fifo, rbCall, now, norm, toneVars, arm, spsc>>

\* The next operation of the running call.
LockStep ==
    /\ ctl.lk.ops # <<>>
    /\ LET op == Head(ctl.lk.ops)
       IN  ctl' = [ctl EXCEPT
                     !.lk.ops = Tail(@),
                     !.lk.held = IF op[1] = "enter" THEN @ \cup {op[2]}
                                 ELSE IF op[1] = "exit" THEN @ \ {op[2]}
                                 ELSE @]
    /\ UNCHANGED <<coreVars, norm, toneVars, arm, spsc>>

NextLock ==
    \/ \E i \in Slots, filename \in PathsLock : LockCall("start", i, filename)
    \/ \E i \in Slots : LockCall("stop", i, PathSdNo)
    \/ LockCall("fill", 0, PathSdNo)
    \/ LockStep

SpecLock == Init /\ [][NextLock]_vars

\* ------------------------------------------------------------------------
\* WAV playback of every supported format: files of two reads are started,
\* filled by fillStreamBuffers and drained by the mixer; two of the slots
\* are used.
\* ------------------------------------------------------------------------
PathsFormats == {PathFlashM22, PathSdS22, PathSdM44, PathSdS44}

NextFormats ==
    \/ \E i \in {0, 1}, filename \in PathsFormats : StartStreamLive(i, filename)
    \/ FillStreamBuffers
    \/ ProcessSample

SpecFormats == Init /\ [][NextFormats]_vars

\* ------------------------------------------------------------------------
\* The tone generator alone: CHRP commands and the mixer, no streams.
\* ------------------------------------------------------------------------
\* The calls made, <<startFreq, endFreq, durationMs, vol>>; 97392 ms is a
\* duration whose product with SAMPLE_RATE does not fit an int.
ChirpCalls ==
    {<<1000, 1000, 100, 200>>, <<500, 2000, 50, 255>>, <<2000, 500, 1, 128>>,
     <<500, 2000, 1, 128>>, <<2000, 2000, 0, 128>>, <<500, 2000, 97392, 128>>}
\* The mixer is followed for MaxToneFrames frames of one tone.
MaxToneFrames == 4500

NextChirp ==
    \/ \E c \in ChirpCalls : PlayChirp(c[1], c[2], c[3], c[4])
    \/ (tone.frames < MaxToneFrames /\ ProcessSample)

SpecChirp == Init /\ [][NextChirp]_vars

\* ------------------------------------------------------------------------
\* playChirp on the I/O core against the tone section of processSample on
\* the audio core, one access to a field of the volatile chirp per step.
\* No stream is active, so the stream loop of processSample does nothing.
\* ------------------------------------------------------------------------
ArmCalls == {<<1000, 1000, 1, 200>>, <<500, 2000, 1, 255>>}
MaxArmCalls == 2
MaxArmFrames == 3

\* The stores of part_005:463-470 in program order.
ArmOrder ==
    <<"active", "phase", "phaseInc", "targetInc", "sweepStep", "samplesLeft",
      "volume", "active">>

\* playChirp up to its first store: the values to store are computed.
ArmBegin(c) ==
    /\ arm.pcP = 0 /\ arm.calls < MaxArmCalls
    /\ \E totalSamples \in totalSamplesOf(c[3]) :
          arm' = [arm EXCEPT
                    !.pcP = IF c[3] <= 0 THEN 0 ELSE 1,
                    !.calls = @ + 1,
                    !.next = playChirp(chirp, c[1], c[2], c[3], c[4], totalSamples)]
    /\ UNCHANGED <<coreVars, norm, chirp, frame, tone, spsc, ctl>>

\* The next store of the running call.
ArmWrite ==
    /\ arm.pcP > 0
    /\ LET f == ArmOrder[arm.pcP]
       IN  /\ chirp' = [chirp EXCEPT ![f] = IF arm.pcP = 1 THEN FALSE ELSE arm.next[f]]
           /\ arm' = [arm EXCEPT !.pcP = IF @ = Len(ArmOrder) THEN 0 ELSE @ + 1,
                                 !.tags[f] = arm.calls]
    /\ UNCHANGED <<coreVars, norm, frame, tone, spsc, ctl>>

\* The mixer reads field f and goes to pc.
armRead(c, a, f, pc) ==
    [c |-> c,
     a |-> [a EXCEPT !.pcM = pc, !.r[f] = c[f], !.rt[f] = a.tags[f],
                     !.seen = @ \cup {a.tags[f]}]]

\* The mixer stores v, computed from the value it read of field f, to
\* field f and goes to pc.
armStore(c, a, f, v, pc) ==
    [c |-> [c EXCEPT ![f] = v],
     a |-> [a EXCEPT !.pcM = pc, !.tags[f] = a.rt[f]]]

\* The next access of part_005:399-432.
mixAccess(c, a) ==
    CASE a.pcM = 0 ->   \* if (chirp.active)
           IF c.active
           THEN [c |-> c, a |-> [a EXCEPT !.pcM = 1, !.seen = {}, !.sample = 0,
                                          !.frames = @ + 1]]
           ELSE [c |-> c, a |-> [a EXCEPT !.seen = {}, !.sample = 0]]
      [] a.pcM = 1 ->   \* if (chirp.samplesLeft > 0)
           armRead(c, a, "samplesLeft", IF c.samplesLeft # u32Zero THEN 2 ELSE 20)
      [] a.pcM = 2 ->   \* index = chirp.phase >> 24
           armRead(c, a, "phase", 3)
      [] a.pcM = 3 ->   \* sample = (sample * chirp.volume) >> 8
           [armRead(c, a, "volume", 4) EXCEPT
              !.a.sample = shr8((SINE_LUT[(a.r.phase[1] \div 256) + 1] * 256) * c.volume)]
      [] a.pcM = 4 ->   \* chirp.phase += chirp.phaseInc
           armRead(c, a, "phaseInc", 5)
      [] a.pcM = 5 -> armRead(c, a, "phase", 6)
      [] a.pcM = 6 -> armStore(c, a, "phase", u32Add(a.r.phase, a.r.phaseInc), 7)
      [] a.pcM = 7 ->   \* if (chirp.sweepStep != 0)
           armRead(c, a, "sweepStep", IF c.sweepStep # 0 THEN 8 ELSE 18)
      [] a.pcM = 8 ->   \* chirp.phaseInc += chirp.sweepStep
           armRead(c, a, "sweepStep", 9)
      [] a.pcM = 9 -> armRead(c, a, "phaseInc", 10)
      [] a.pcM = 10 ->
           armStore(c, a, "phaseInc", u32AddInt(a.r.phaseInc, a.r.sweepStep), 11)
      [] a.pcM = 11 ->  \* if (chirp.sweepStep > 0 && phaseInc > targetInc)
           armRead(c, a, "sweepStep", IF c.sweepStep > 0 THEN 12 ELSE 15)
      [] a.pcM = 12 -> armRead(c, a, "phaseInc", 13)
      [] a.pcM = 13 ->
           armRead(c, a, "targetInc", IF u32Lt(c.targetInc, a.r.phaseInc) THEN 14 ELSE 15)
      [] a.pcM = 14 ->  \* chirp.phaseInc = chirp.targetInc
           armRead(c, a, "targetInc", 141)
      [] a.pcM = 141 ->
           [armStore(c, a, "phaseInc", a.r.targetInc, 15) EXCEPT
              !.a.tags.phaseInc = a.rt.targetInc]
      [] a.pcM = 15 ->  \* if (chirp.sweepStep < 0 && phaseInc < targetInc)
           armRead(c, a, "sweepStep", IF c.sweepStep < 0 THEN 16 ELSE 18)
      [] a.pcM = 16 -> armRead(c, a, "phaseInc", 17)
      [] a.pcM = 17 ->
           armRead(c, a, "targetInc", IF u32Lt(a.r.phaseInc, c.targetInc) THEN 171 ELSE 18)
      [] a.pcM = 171 -> armRead(c, a, "targetInc", 172)
      [] a.pcM = 172 ->
           [armStore(c, a, "phaseInc", a.r.targetInc, 18) EXCEPT
              !.a.tags.phaseInc = a.rt.targetInc]
      [] a.pcM = 18 ->  \* chirp.samplesLeft--
           armRead(c, a, "samplesLeft", 19)
      [] a.pcM = 19 ->
           armStore(c, a, "samplesLeft", u32AddInt(a.r.samplesLeft, -1), 0)
      [] a.pcM = 20 ->  \* chirp.active = false
           [c |-> [c EXCEPT !.active = FALSE], a |-> [a EXCEPT !.pcM = 0]]

\* One access of the mixer; the frame is written when the tone section is
\* left.
MixAccess ==
    /\ arm.pcM = 0 => arm.frames < MaxArmFrames
    /\ LET res == mixAccess(chirp, arm)
       IN  /\ chirp' = res.c
           /\ arm' = res.a
           /\ frame' = IF res.a.pcM = 0
                       THEN [NoFrame EXCEPT
                               !.tone = res.a.sample,
                               !.mixed = <<res.a.sample, res.a.sample>>,
                               !.out = <<i32_to_i16(applyFastLimiter(res.a.sample)),
                                         i32_to_i16(applyFastLimiter(res.a.sample))>>]
                       ELSE frame
    /\ UNCHANGED <<coreVars, norm, tone, spsc, ctl>>

NextArm ==
    \/ \E c \in ArmCalls : ArmBegin(c)
    \/ ArmWrite
    \/ MixAccess

SpecArm == Init /\ [][NextArm]_vars

\* A tone re-armed while the previous one runs out: the first call of
\* ArmCalls has returned and the mixer has played all but the last frame
\* of its tone; then the accesses of SpecArm.
RECURSIVE chirpAfter(_, _)
chirpAfter(c, n) == IF n = 0 THEN c ELSE chirpAfter(chirpAdvance(c), n - 1)

LastFrameChirp ==
    LET c0 == playChirp(InitChirp, 1000, 1000, 1, 200,
                        CHOOSE t \in totalSamplesOf(1) : TRUE)
    IN  chirpAfter(c0, c0.samplesLeft[2] - 1)

InitRearm ==
    /\ InitCore
    /\ norm = NoNorm
    /\ chirp = LastFrameChirp
    /\ frame = NoFrame
    /\ tone = NoTone
    /\ arm = [NoArm EXCEPT !.calls = 1, !.tags = [f \in DOMAIN InitChirp |-> 1]]
    /\ spsc = NoSpsc
    /\ ctl = NoCtl

SpecRearm == InitRearm /\ [][NextArm]_vars

\* ------------------------------------------------------------------------
\* RingBuffer::push on the I/O core against the two pops of the stream
\* loop of processSample on the audio core, on the buffer of a started
\* stream: one access to readPos, writePos or a slot per step, in program
\* order.
\* ------------------------------------------------------------------------
MaxSpscPushes == 13

\* The next access of push(sample) (config.h:186-198); p.pc = 0 after the
\* return.  ret.stored: this access stored the sample in slot p.idx;
\* ret.done: this access published it.
pushAccess_publishFirst(rb, p) ==
    CASE p.pc = 1 -> [rb |-> rb, p |-> [p EXCEPT !.pc = 2,
                                          !.nextWrite = (rb.writePos + 1) % STREAM_BUFFER_SIZE],
                      stored |-> FALSE, done |-> FALSE]
      [] p.pc = 2 -> [rb |-> rb, p |-> [p EXCEPT !.pc = IF p.nextWrite = rb.readPos
                                                        THEN 0 ELSE 3],
                      stored |-> FALSE, done |-> FALSE]
      [] p.pc = 3 -> [rb |-> rb, p |-> [p EXCEPT !.pc = 4, !.idx = rb.writePos],
                      stored |-> FALSE, done |-> FALSE]
      [] p.pc = 4 -> [rb |-> [rb EXCEPT !.writePos = p.nextWrite],
                      p |-> [p EXCEPT !.pc = 5], stored |-> FALSE, done |-> TRUE]
      [] p.pc = 5 -> [rb |-> [rb EXCEPT !.buffer[p.idx] = p.sample],
                      p |-> [p EXCEPT !.pc = 0], stored |-> TRUE, done |-> FALSE]

pushAccess(rb, p) ==
    CASE p.pc = 1 ->   \* nextWrite = (writePos + 1) % STREAM_BUFFER_SIZE
           [rb |-> rb, p |-> [p EXCEPT !.pc = 2,
                                !.nextWrite = (rb.writePos + 1) % STREAM_BUFFER_SIZE],
            stored |-> FALSE, done |-> FALSE]
      [] p.pc = 2 ->   \* if (nextWrite == readPos) return false
           [rb |-> rb, p |-> [p EXCEPT !.pc = IF p.nextWrite = rb.readPos THEN 0 ELSE 3],
            stored |-> FALSE, done |-> FALSE]
      [] p.pc = 3 ->   \* buffer[writePos] = sample: the index
           [rb |-> rb, p |-> [p EXCEPT !.pc = 4, !.idx = rb.writePos],
            stored |-> FALSE, done |-> FALSE]
      [] p.pc = 4 ->   \* buffer[writePos] = sample: the store
           [rb |-> [rb EXCEPT !.buffer[p.idx] = p.sample],
            p |-> [p EXCEPT !.pc = 5], stored |-> TRUE, done |-> FALSE]
      [] p.pc = 5 ->   \* writePos = nextWrite
           [rb |-> [rb EXCEPT !.writePos = p.nextWrite],
            p |-> [p EXCEPT !.pc = 0], stored |-> FALSE, done |-> TRUE]

\* The next access of the stream loop for one slot (part_005:369-372 with
\* config.h:180-184 and 200-205); c.pc = 0 between frames.  ret.read: this
\* access read the sample ret.got from slot c.idx.
popAccess(rb, c) ==
    CASE c.pc = 0 ->   \* availableForRead(): writePos
           [rb |-> rb, c |-> [c EXCEPT !.pc = 1, !.wp = rb.writePos],
            read |-> FALSE, got |-> 0]
      [] c.pc = 1 ->   \* availableForRead(): readPos; >= 2
           [rb |-> rb,
            c |-> [c EXCEPT !.pc = IF ((c.wp - rb.readPos) + STREAM_BUFFER_SIZE)
                                        % STREAM_BUFFER_SIZE >= 2 THEN 2 ELSE 0],
            read |-> FALSE, got |-> 0]
      [] c.pc \in {2, 6} ->   \* sample = buffer[readPos]: the index
           [rb |-> rb, c |-> [c EXCEPT !.pc = @ + 1, !.idx = rb.readPos],
            read |-> FALSE, got |-> 0]
      [] c.pc \in {3, 7} ->   \* sample = buffer[readPos]: the load
           [rb |-> rb, c |-> [c EXCEPT !.pc = @ + 1],
            read |-> TRUE, got |-> rb.buffer[c.idx]]
      [] c.pc \in {4, 8} ->   \* readPos = (readPos + 1) % ...: the read
           [rb |-> rb, c |-> [c EXCEPT !.pc = @ + 1, !.rp = rb.readPos],
            read |-> FALSE, got |-> 0]
      [] c.pc \in {5, 9} ->   \* readPos = (readPos + 1) % ...: the write
           [rb |-> [rb EXCEPT !.readPos = (c.rp + 1) % STREAM_BUFFER_SIZE],
            c |-> [c EXCEPT !.pc = IF @ = 9 THEN 0 ELSE @ + 1],
            read |-> FALSE, got |-> 0]

\* The stream of slot 0 has been started; nothing starts or stops a stream
\* afterwards.
InitSpsc ==
    LET w == startStream(initAudioSystem, 0, PathSdWav).w
    IN  /\ streams = w.st
        /\ streamBuffers = w.rb
        /\ mp3DecoderInUse = w.pool
        /\ call = NoCall /\ nStarts = 0 /\ fifo = <<>> /\ rbCall = NoRbCall /\ now = 0
        /\ norm = NoNorm
        /\ InitTone

\* A push call begins; the samples pushed are numbered from 1.
SpscBegin ==
    /\ spsc.w.pc = 0 /\ spsc.pushes < MaxSpscPushes
    /\ spsc' = [spsc EXCEPT !.pushes = @ + 1, !.w.pc = 1, !.w.sample = spsc.pushes + 1]
    /\ UNCHANGED <<coreVars, norm, toneVars, arm, ctl>>

SpscPush ==
    /\ spsc.w.pc > 0
    /\ LET res == pushAccess(streamBuffers[0], spsc.w)
       IN  /\ streamBuffers' = [streamBuffers EXCEPT ![0] = res.rb]
           /\ fifo' = IF res.done THEN Append(fifo, spsc.w.sample) ELSE fifo
           /\ spsc' = [spsc EXCEPT
                         !.w = res.p,
                         !.live = IF res.stored THEN @ \cup {spsc.w.idx} ELSE @,
                         !.overwrote = @ \/ (res.stored /\ spsc.w.idx \in spsc.live)]
    /\ UNCHANGED <<streams, mp3DecoderInUse, call, nStarts, rbCall, now, norm,
                   toneVars, arm, ctl>>

SpscPop ==
    /\ streams[0].active
    /\ LET res == popAccess(streamBuffers[0], spsc.r)
       IN  /\ streamBuffers' = [streamBuffers EXCEPT ![0] = res.rb]
           /\ fifo' = IF res.read /\ fifo # <<>> THEN Tail(fifo) ELSE fifo
           /\ spsc' = [spsc EXCEPT
                         !.r = res.c,
                         !.live = IF res.read THEN @ \ {spsc.r.idx} ELSE @,
                         !.got = IF res.read THEN res.got ELSE @,
                         !.expect = IF res.read
                                    THEN (IF fifo = <<>> THEN -1 ELSE Head(fifo))
                                    ELSE @]
    /\ UNCHANGED <<streams, mp3DecoderInUse, call, nStarts, rbCall, now, norm,
                   toneVars, arm, ctl>>

NextSpsc == SpscBegin \/ SpscPush \/ SpscPop

SpecSpsc == InitSpsc /\ [][NextSpsc]_vars

\* ------------------------------------------------------------------------
\* stopStream and startStream on the I/O core against the stream loop of
\* processSample on the audio core, slot 0: one access to active, readPos,
\* writePos or a buffer slot per step, in program order.  The pushes of
\* fillStreamBuffers are made between the calls, each push one step.
\* ------------------------------------------------------------------------
MaxTearCalls == 2
MaxTearPushes == 3

PathsTear == {PathFlashA, PathSdMp3}

tearQuiet == <<call, nStarts, fifo, rbCall, now, norm, toneVars, arm, ctl>>

\* The mixer is past `s->active && availableForRead() >= 2` and has not
\* finished its second pop.
inPops == spsc.r.pc \in 2 .. 9

\* A STOP or PLAY command: stopStream(0) or startStream(0, filename) is
\* entered, up to the test of part_005:757.
TearBegin ==
    /\ spsc.io.pc = "idle" /\ spsc.calls < MaxTearCalls
    /\ \E op \in {"stop", "start"}, filename \in PathsTear :
          LET returns == ~streams[0].active /\ streams[0].type = STREAM_TYPE_INACTIVE
          IN  /\ op = "stop" => (filename = PathFlashA /\ ~returns)
              /\ spsc' = [spsc EXCEPT
                            !.calls = @ + 1, !.started = FALSE,
                            !.io = [pc |-> IF returns THEN "open" ELSE "active",
                                    op |-> op, filename |-> filename,
                                    next |-> InitStream]]
    /\ UNCHANGED <<streams, streamBuffers, mp3DecoderInUse, tearQuiet>>

\* s->active = false (part_005:759).
TearClearActive ==
    /\ spsc.io.pc = "active"
    /\ streams' = [streams EXCEPT ![0].active = FALSE]
    /\ spsc' = [spsc EXCEPT !.io.pc = "release"]
    /\ UNCHANGED <<streamBuffers, mp3DecoderInUse, tearQuiet>>

\* The decoder is released, the file closed, type set (part_005:761-781).
TearRelease ==
    /\ spsc.io.pc = "release"
    /\ LET w == stopStreamAt([World EXCEPT !.st[0].active = TRUE], 0)
       IN  /\ streams' = w.st
           /\ mp3DecoderInUse' = w.pool
    /\ spsc' = [spsc EXCEPT !.io.pc = "clear.rp"]
    /\ UNCHANGED <<streamBuffers, tearQuiet>>

\* clear(): readPos = 0 (config.h:208), in stopStream and in startStream.
TearClearRp ==
    /\ spsc.io.pc \in {"clear.rp", "sclear.rp"}
    /\ streamBuffers' = [streamBuffers EXCEPT ![0].readPos = 0]
    /\ spsc' = [spsc EXCEPT
                  !.io.pc = IF @ = "clear.rp" THEN "clear.wp" ELSE "sclear.wp",
                  !.clearInPop = @ \/ inPops]
    /\ UNCHANGED <<streams, mp3DecoderInUse, tearQuiet>>

\* clear(): writePos = 0 (config.h:209).
TearClearWp ==
    /\ spsc.io.pc \in {"clear.wp", "sclear.wp"}
    /\ streamBuffers' = [streamBuffers EXCEPT ![0].writePos = 0]
    /\ spsc' = [spsc EXCEPT
                  !.io.pc = IF @ = "sclear.wp" THEN "setactive"
                            ELSE IF spsc.io.op = "start" THEN "open" ELSE "idle",
                  !.clearInPop = @ \/ inPops]
    /\ UNCHANGED <<streams, mp3DecoderInUse, tearQuiet>>

\* startStream from the open to the strncpy (part_005:581-706); it
\* returns here when the open or the decoder fails.
TearOpen ==
    /\ spsc.io.pc = "open"
    /\ LET r == startOpen(World, 0, spsc.io.filename)
       IN  IF r.ret
           THEN /\ streams' = [r.w.st EXCEPT
                                 ![0].active = streams[0].active,
                                 ![0].fileFinished = streams[0].fileFinished,
                                 ![0].startTime = streams[0].startTime]
                /\ mp3DecoderInUse' = r.w.pool
                /\ spsc' = [spsc EXCEPT !.io.pc = "sclear.rp", !.io.next = r.w.st[0]]
           ELSE /\ streams' = r.w.st
                /\ mp3DecoderInUse' = r.w.pool
                /\ spsc' = [spsc EXCEPT !.io.pc = "idle"]
    /\ UNCHANGED <<streamBuffers, tearQuiet>>

\* s->active = true (part_005:708).
TearSetActive ==
    /\ spsc.io.pc = "setactive"
    /\ streams' = [streams EXCEPT ![0].active = TRUE]
    /\ spsc' = [spsc EXCEPT !.io.pc = "finish"]
    /\ UNCHANGED <<streamBuffers, mp3DecoderInUse, tearQuiet>>

\* The rest of startStream (part_005:709-746), which returns true.
TearFinish ==
    /\ spsc.io.pc = "finish"
    /\ streams' = [streams EXCEPT ![0] = spsc.io.next]
    /\ spsc' = [spsc EXCEPT !.io.pc = "idle", !.started = TRUE, !.due = 0]
    /\ UNCHANGED <<streamBuffers, mp3DecoderInUse, tearQuiet>>

\* A push of fillStreamBuffers on the started stream.
TearPush ==
    /\ spsc.io.pc = "idle" /\ streams[0].active /\ ~streams[0].fileFinished
    /\ spsc.pushes < MaxTearPushes
    /\ LET res == push(streamBuffers[0], spsc.pushes + 1)
       IN  /\ streamBuffers' = [streamBuffers EXCEPT ![0] = res.rb]
           /\ spsc' = [spsc EXCEPT !.pushes = @ + 1,
                                   !.due = IF res.ret THEN @ + 1 ELSE @]
    /\ UNCHANGED <<streams, mp3DecoderInUse, tearQuiet>>

\* The next access of the stream loop of processSample for slot 0
\* (part_005:369-372): the test of active, then availableForRead() and
\* the two pops.  The read of startTime (part_005:382) follows the second
\* pop and is taken with its last access.
TearMix ==
    \/ /\ spsc.r.pc = 0 /\ streams[0].active
       /\ spsc' = [spsc EXCEPT !.r.pc = 10,
                                !.tested = IF spsc.io.pc = "finish" THEN spsc.calls ELSE 0]
       /\ UNCHANGED <<streams, streamBuffers, mp3DecoderInUse, tearQuiet>>
    \/ /\ spsc.r.pc # 0
       /\ LET res == popAccess(streamBuffers[0],
                               IF spsc.r.pc = 10 THEN [spsc.r EXCEPT !.pc = 0]
                               ELSE spsc.r)
          IN  /\ streamBuffers' = [streamBuffers EXCEPT ![0] = res.rb]
              /\ spsc' = [spsc EXCEPT
                            !.r = res.c,
                            !.got = IF res.read THEN res.got ELSE @,
                            !.due = IF spsc.r.pc \in {5, 9} THEN @ - 1 ELSE @,
                            !.popInactive = @ \/ (/\ spsc.r.pc \in {3, 5, 7, 9}
                                                  /\ ~streams[0].active),
                            !.stale = @ \/ (/\ spsc.r.pc = 9
                                            /\ spsc.io.pc = "finish"
                                            /\ spsc.calls > 1
                                            /\ spsc.tested = spsc.calls)]
       /\ UNCHANGED <<streams, mp3DecoderInUse, tearQuiet>>

NextTear ==
    \/ TearBegin
    \/ TearClearActive \/ TearRelease \/ TearClearRp \/ TearClearWp
    \/ TearOpen \/ TearSetActive \/ TearFinish
    \/ TearPush
    \/ TearMix

SpecTear == Init /\ [][NextTear]_vars

\* ------------------------------------------------------------------------
\* The two cores.  Core 0: setup() with the voice and beeper feedback of
\* syncBank1ToFlash, which unmute and mute the output, then loop():
\* commands, fillStreamBuffers, the stop check slot by slot.  Core 1:
\* loop1(), one iteration per step, between any two steps of core 0.
\* ------------------------------------------------------------------------
MaxLoopStarts == 2

PathsVoice == {PathSdWav}
PathsLoop == {PathFlashA, PathSdMp3}
\* The playChirp calls of the beeper feedback (file_management.cpp:569-571).
BeepCalls == {<<2000, 500, 60, 50>>, <<2000, 4000, 50, 50>>}
\* loop1() is followed for MaxMuteFrames frames of one tone.
MaxMuteFrames == 3

quietVars == <<fifo, rbCall, now, norm, toneVars, arm, spsc>>

\* Mutant of Loop1: the mixer runs whatever g_allowAudio is.
Loop1_ignoreMute ==
    /\ ProcessSampleCore
    /\ ctl' = [ctl EXCEPT !.isRunning = TRUE, !.written = 1 - @,
                          !.passEnd = FALSE, !.iterEnd = FALSE]

\* One iteration of the while (true) of loop1() (part_005:553-567).
Loop1 ==
    IF ctl.g_allowAudio
    THEN /\ ProcessSampleCore
         /\ ctl' = [ctl EXCEPT !.isRunning = TRUE, !.written = 1 - @,
                               !.passEnd = FALSE, !.iterEnd = FALSE]
    ELSE /\ ctl' = [ctl EXCEPT !.isRunning = FALSE,
                               !.passEnd = FALSE, !.iterEnd = FALSE]
         /\ UNCHANGED <<coreVars, norm, toneVars, arm, spsc>>

\* startStream as core 0 calls it in phase `from`; the phase after it.
StartIn(from, to, i, filename) ==
    LET r == startStream(World, i, filename)
    IN  /\ ctl.phase = from /\ nStarts < MaxLoopStarts
        /\ nStarts' = nStarts + 1
        /\ SetWorld(r.w)
        /\ call' = [op |-> "startStream", slot |-> i, filename |-> filename,
                    ret |-> r.ret, tr |-> r.w.tr]
        /\ ctl' = [ctl EXCEPT !.phase = to, !.passEnd = FALSE, !.iterEnd = FALSE]
        /\ UNCHANGED quietVars

\* fillStreamBuffers() called in phase `from`.
FillIn(from, to) ==
    LET w == fillStreamBuffers(World)
    IN  /\ ctl.phase = from
        /\ SetWorld(w)
        /\ call' = NoCall
        /\ ctl' = [ctl EXCEPT
                     !.phase = to, !.idx = 0, !.passEnd = TRUE, !.iterEnd = FALSE,
                     !.marked = {i \in Slots : /\ w.st[i].stopRequested
                                               /\ ~streams[i].stopRequested}]
        /\ UNCHANGED <<nStarts, quietVars>>

\* The stop check of slot i (CHIRP_Audio.ino:355-366,
\* file_management.cpp:236-245) made in phase `from`; last: it ends the
\* iteration.
CheckIn(from, to, i, last) ==
    LET w == stopCheckOne(World, i)
    IN  /\ ctl.phase = from
        /\ SetWorld(w)
        /\ call' = NoCall
        /\ ctl' = [ctl EXCEPT
                     !.phase = to, !.idx = IF last THEN 0 ELSE i + 1,
                     !.passEnd = FALSE, !.iterEnd = last,
                     !.torn = IF streams[i].active /\ ~w.st[i].active
                              THEN [slot |-> i,
                                    avail |-> availableForRead(streamBuffers[i]),
                                    by |-> IF streams[i].stopRequested
                                           THEN "stopRequested" ELSE "empty"]
                              ELSE @]
        /\ UNCHANGED <<nStarts, quietVars>>

\* g_allowAudio = b by core 0, going from phase `from` to phase `to`.
AllowIn(from, to, b) ==
    /\ ctl.phase = from
    /\ ctl' = [ctl EXCEPT !.g_allowAudio = b, !.phase = to,
                          !.passEnd = FALSE, !.iterEnd = FALSE]
    /\ UNCHANGED <<coreVars, norm, toneVars, arm, spsc>>

\* playVoiceFeedback (file_management.cpp:212-254).
VoiceUnmute == AllowIn("setup", "voice", TRUE)
VoiceStart == \E filename \in PathsVoice : StartIn("voice", "vfill", 0, filename)
VoiceFill == streams[0].active /\ FillIn("vfill", "vcheck")
VoiceCheck == CheckIn("vcheck", "vfill", 0, TRUE)
VoiceMute == ~streams[0].active /\ AllowIn("vfill", "setup", FALSE)

\* The beeper feedback of syncBank1ToFlash (file_management.cpp:567-573).
BeepUnmute == AllowIn("setup", "beep", TRUE)
BeepChirp ==
    /\ ctl.phase = "beep"
    /\ \E c \in BeepCalls : PlayChirpCore(c[1], c[2], c[3], c[4])
    /\ ctl' = [ctl EXCEPT !.passEnd = FALSE, !.iterEnd = FALSE]
BeepMute == AllowIn("beep", "setup", FALSE)

\* The end of setup() (CHIRP_Audio.ino:270).
SetupEnd == AllowIn("setup", "cmd", TRUE)

\* loop(): the PLAY and STOP commands, fillStreamBuffers, the stop check.
CmdStart == \E i \in Slots, filename \in PathsLoop : StartIn("cmd", "cmd", i, filename)
CmdStop ==
    /\ ctl.phase = "cmd"
    /\ \E i \in Slots : streams[i].active /\ SetWorld(stopStream(World, i))
    /\ call' = NoCall
    /\ ctl' = [ctl EXCEPT !.passEnd = FALSE, !.iterEnd = FALSE]
    /\ UNCHANGED <<nStarts, quietVars>>
LoopFill == FillIn("cmd", "check")
LoopCheck ==
    CheckIn("check", IF ctl.idx = MAX_STREAMS - 1 THEN "cmd" ELSE "check",
            ctl.idx, ctl.idx = MAX_STREAMS - 1)

NextLoop ==
    \/ VoiceUnmute \/ VoiceStart \/ VoiceFill \/ VoiceCheck \/ VoiceMute
    \/ SetupEnd
    \/ CmdStart \/ CmdStop \/ LoopFill \/ LoopCheck
    \/ Loop1

SpecLoop == Init /\ [][NextLoop]_vars

\* setup() with both kinds of feedback against loop1().
NextMute ==
    \/ VoiceUnmute \/ VoiceStart \/ VoiceFill \/ VoiceCheck \/ VoiceMute
    \/ BeepUnmute \/ BeepChirp \/ BeepMute
    \/ SetupEnd
    \/ (tone.frames < MaxMuteFrames /\ Loop1)

SpecMute == Init /\ [][NextMute]_vars

\* ------------------------------------------------------------------------
\* Reads that fail: a fillStreamBuffers pass in which the read() of some
\* slots returns 0 although the file has bytes left.
\* ------------------------------------------------------------------------
FillStreamBuffersIO(Z) ==
    /\ SetWorld(fillFromRead(World, 0, Z))
    /\ ctl' = [ctl EXCEPT !.zero = {i \in Z : readsMore(World, i)}]
    /\ call' = NoCall
    /\ UNCHANGED <<nStarts, fifo, rbCall, now, norm, toneVars, arm, spsc>>

NextIO ==
    \/ \E i \in Slots, filename \in PathsSel : StartStream(i, filename)
    \/ \E Z \in SUBSET Slots : FillStreamBuffersIO(Z)

SpecIO == Init /\ [][NextIO]_vars

\* ------------------------------------------------------------------------
\* WAV files with and without a metadata chunk before `data`, on both
\* tiers: startStream and the reads of fillStreamBuffers.
\* ------------------------------------------------------------------------
PathsWav == {PathFlashA, PathSdWav, PathFlashList, PathSdList}

NextWav ==
    \/ \E i \in Slots, filename \in PathsWav : StartStream(i, filename)
    \/ FillStreamBuffers

SpecWav == Init /\ [][NextWav]_vars

\* ------------------------------------------------------------------------
\* Ring-buffer harness: push, pop and clear called directly on
\* streamBuffers[0]; pop only when availableForRead() > 0.
\* ------------------------------------------------------------------------
Push(sample) ==
    LET r == push(streamBuffers[0], sample)
    IN  /\ streamBuffers' = [streamBuffers EXCEPT ![0] = r.rb]
        /\ fifo' = IF r.ret THEN Append(fifo, sample) ELSE fifo
        /\ rbCall' = [NoRbCall EXCEPT !.op = "push", !.sample = sample, !.ret = r.ret]
        /\ UNCHANGED <<streams, mp3DecoderInUse, call, nStarts, now, auxVars>>

\* pop's `sample` is the value returned, `expect` the oldest sample pushed
\* and not yet popped.
Pop ==
    /\ availableForRead(streamBuffers[0]) > 0
    /\ LET r == pop(streamBuffers[0])
       IN  /\ streamBuffers' = [streamBuffers EXCEPT ![0] = r.rb]
           /\ fifo' = IF fifo = <<>> THEN fifo ELSE Tail(fifo)
           /\ rbCall' = [NoRbCall EXCEPT !.op = "pop", !.sample = r.ret,
                                         !.expect = IF fifo = <<>> THEN -1
                                                    ELSE Head(fifo)]
    /\ UNCHANGED <<streams, mp3DecoderInUse, call, nStarts, now, auxVars>>

Clear ==
    /\ streamBuffers' = [streamBuffers EXCEPT ![0] = clear(@)]
    /\ fifo' = <<>>
    /\ rbCall' = [NoRbCall EXCEPT !.op = "clear"]
    /\ UNCHANGED <<streams, mp3DecoderInUse, call, nStarts, now, auxVars>>

NextRB ==
    \/ \E sample \in HarnessSamples : Push(sample)
    \/ Pop
    \/ Clear

SpecRB == Init /\ [][NextRB]_vars

\* ========================================================================
\* Properties
\* ========================================================================
Range(seq) == {seq[k] : k \in DOMAIN seq}

\* ------------------------------------------------------------------------
\* C1  RingBuffer conservation.  After any sequence of clear, push and pop
\* (pop only when availableForRead() > 0), wrapped or not: both cursors are
\* in [0, C), availableForRead() = (writePos - readPos + C) mod C is the
\* number of samples pushed and not yet popped, and availableForRead() +
\* availableForWrite() = C - 1.
\* ------------------------------------------------------------------------
C1_Conservation ==
    LET rb == streamBuffers[0]
    IN  /\ rb.readPos \in 0 .. (STREAM_BUFFER_SIZE - 1)
        /\ rb.writePos \in 0 .. (STREAM_BUFFER_SIZE - 1)
        /\ availableForRead(rb)
             = (rb.writePos - rb.readPos + STREAM_BUFFER_SIZE) % STREAM_BUFFER_SIZE
        /\ availableForRead(rb) = Len(fifo)
        /\ availableForRead(rb) + availableForWrite(rb) = STREAM_BUFFER_SIZE - 1

\* A push has just wrapped the write cursor behind the read cursor.
C1_Witness ==
    /\ rbCall.op = "push" /\ rbCall.ret
    /\ streamBuffers[0].writePos < streamBuffers[0].readPos
    /\ availableForRead(streamBuffers[0]) >= 2

\* ------------------------------------------------------------------------
\* C2  RingBuffer FIFO.  The samples between the cursors are the samples
\* of the successful pushes not yet popped, in the order pushed, and every
\* pop returns the oldest of them.
\* ------------------------------------------------------------------------
C2_Fifo ==
    /\ contents(streamBuffers[0]) = fifo
    /\ rbCall.op = "pop" => rbCall.sample = rbCall.expect

\* A pop across the wrap returned 1 while a different sample waits behind it.
C2_Witness ==
    /\ rbCall.op = "pop" /\ rbCall.sample = 1
    /\ fifo # <<>> /\ Head(fifo) = 0
    /\ streamBuffers[0].writePos < streamBuffers[0].readPos

\* ------------------------------------------------------------------------
\* C3  RingBuffer back-pressure.  A push made when availableForWrite() = 0
\* returns false and leaves the cursors and the array unchanged; a push
\* that returns true has appended its sample to the buffered samples, and
\* a push that returns false has changed nothing.
\* ------------------------------------------------------------------------
C3_BackPressure ==
    [][rbCall'.op = "push" =>
         LET rb  == streamBuffers[0]
             rb1 == streamBuffers'[0]
         IN  /\ availableForWrite(rb) = 0 => (~rbCall'.ret /\ rb1 = rb)
             /\ rbCall'.ret => /\ availableForWrite(rb) > 0
                               /\ rb1.buffer[rb.writePos] = rbCall'.sample
                               /\ rb1.readPos = rb.readPos
                               /\ contents(rb1) = Append(contents(rb), rbCall'.sample)
             /\ ~rbCall'.ret => rb1 = rb]_vars

\* A push was refused on a full buffer.
C3_Witness ==
    /\ rbCall.op = "push" /\ ~rbCall.ret
    /\ availableForWrite(streamBuffers[0]) = 0
    /\ Len(fifo) = STREAM_BUFFER_SIZE - 1

\* ------------------------------------------------------------------------
\* C4  No resource leak.  Whenever every slot is stopped, no decoder-pool
\* entry is marked in use and no file handle of any slot is open.
\* ------------------------------------------------------------------------
C4_NoLeak ==
    (\A i \in Slots : ~streams[i].active) =>
        /\ \A d \in Decoders : ~mp3DecoderInUse[d]
        /\ \A i \in Slots : ~streams[i].flashFile.open /\ ~streams[i].sdFile.open

\* Every slot is stopped after an MP3 stream and a WAV stream have played.
C4_Witness ==
    /\ \A i \in Slots : ~streams[i].active
    /\ \E i \in Slots : streams[i].filename = PathSdMp3
    /\ \E i \in Slots : streams[i].filename = PathFlashA

\* ------------------------------------------------------------------------
\* C5  Restart ordering.  A startStream call on a slot that is active
\* closes the previous file, and releases the previous decoder if the
\* stream had one, before it opens the new file or acquires a decoder.
\* ------------------------------------------------------------------------
StopEvents == {"stop:release", "stop:close"}

TeardownFirst(tr) ==
    \A a, b \in DOMAIN tr :
        (tr[a] \in StopEvents /\ tr[b] \notin StopEvents) => a < b

C5_RestartOrdering ==
    [][(call'.op = "startStream" /\ streams[call'.slot].active) =>
         /\ "stop:close" \in Range(call'.tr)
         /\ streams[call'.slot].type = STREAM_TYPE_MP3_SD
              => "stop:release" \in Range(call'.tr)
         /\ TeardownFirst(call'.tr)]_vars

\* An MP3 stream was restarted over an MP3 stream.
C5_Witness ==
    /\ call.op = "startStream" /\ call.ret
    /\ call.tr = <<"stop:release", "stop:close", "open", "acquire">>

Holders(d) == {i \in Slots : streams[i].decoderIndex = d}

ActiveMp3 == {i \in Slots : streams[i].active /\ streams[i].type = STREAM_TYPE_MP3_SD}

C7_Ownership ==
    /\ \A d \in Decoders :
          /\ Cardinality(Holders(d)) <= 1
          /\ mp3DecoderInUse[d] <=> Cardinality(Holders(d) \cap ActiveMp3) = 1
    /\ \A i \in ActiveMp3 : streams[i].decoderIndex \in Decoders
    /\ Cardinality(ActiveMp3) <= MAX_MP3_DECODERS

\* Both decoders are out, and a third MP3 start has just been refused.
C7_Witness ==
    /\ Cardinality(ActiveMp3) = MAX_MP3_DECODERS
    /\ \A d \in Decoders : mp3DecoderInUse[d]
    /\ call.op = "startStream" /\ isMP3(call.filename) /\ ~call.ret

\* ------------------------------------------------------------------------
\* C8  stopStream is idempotent.  In every state and for every slot,
\* stopStream; stopStream leaves what one stopStream leaves, and on a slot
\* that is not active stopStream changes nothing.
\* ------------------------------------------------------------------------
C8_Idempotent ==
    \A i \in Slots :
        LET w1 == stopStream(World, i)
        IN  /\ stopStream(w1, i) = w1
            /\ ~streams[i].active => w1 = World

\* A slot has played and been stopped, with stale samples left in its
\* buffer, while another slot plays.
C8_Witness ==
    \E i, j \in Slots :
        /\ ~streams[i].active /\ streams[i].filename # ""
        /\ \E k \in DOMAIN streamBuffers[i].buffer : streamBuffers[i].buffer[k] # 0
        /\ streams[j].active /\ availableForRead(streamBuffers[j]) > 0

\* ------------------------------------------------------------------------
\* C9  Failed start leaves the slot inactive.  After a startStream call
\* that returned false the slot is not active, of type Inactive, has no
\* decoder and no open file, whatever it was doing before the call.
\* ------------------------------------------------------------------------
C9_FailedStart ==
    (call.op = "startStream" /\ ~call.ret) =>
        LET s == streams[call.slot]
        IN  /\ ~s.active
            /\ s.type = STREAM_TYPE_INACTIVE
            /\ s.decoderIndex = -1
            /\ ~s.flashFile.open /\ ~s.sdFile.open

\* A start failed on a slot that was playing an MP3 stream.
C9_Witness ==
    /\ call.op = "startStream" /\ ~call.ret
    /\ "stop:release" \in Range(call.tr)
    /\ "stop:close" \in Range(call.tr)

\* ------------------------------------------------------------------------
\* C10  Malformed WAV is rejected.  As claimed: a startStream call on a
\* WAV file without the RIFF, WAVE or PCM marker, or without a `data`
\* chunk, returns false and does not activate the slot, and no slot ever
\* plays such a file.
\* ------------------------------------------------------------------------
Malformed(f) ==
    /\ f.kind = "wav"
    /\ (~f.riff \/ ~f.wave \/ f.audioFormat # 1 \/ f.dataStart = 0)

C10_MalformedRejected ==
    /\ (call.op = "startStream" /\ Malformed(FileAt(call.filename))) =>
          (~call.ret /\ ~streams[call.slot].active)
    /\ \A i \in Slots :
          streams[i].active => ~Malformed(FileAt(streams[i].filename))

C18_SourceSelection ==
    (call.op = "startStream" /\ call.ret) =>
        LET s == streams[call.slot]
        IN  /\ isMP3(call.filename)
                 <=> (/\ s.type = STREAM_TYPE_MP3_SD
                      /\ s.decoderIndex \in Decoders
                      /\ mp3DecoderInUse[s.decoderIndex])
            /\ ~isMP3(call.filename)
                 <=> s.type \in {STREAM_TYPE_WAV_FLASH, STREAM_TYPE_WAV_SD}
            /\ isFlash(call.filename) <=> s.flashFile.open
            /\ ~isFlash(call.filename) <=> s.sdFile.open

\* ------------------------------------------------------------------------
\* C12  Sample-rate / channel normalisation.  With room in the buffer,
\* the samples a block adds behind those already buffered are: stereo
\* 44.1 kHz - the block itself; mono 44.1 kHz - every sample twice;
\* stereo 22.05 kHz - every frame (L,R) as L,R,L,R; mono 22.05 kHz -
\* every sample four times.  The same for the WAV reader and the MP3
\* callback.
\* ------------------------------------------------------------------------
Normalised(channels, sampleRate, block) ==
    IF sampleRate = 22050
    THEN IF channels = 2
         THEN [k \in 1 .. (4 * (Len(block) \div 2)) |->
                  block[2 * ((k - 1) \div 4) + ((k - 1) % 2) + 1]]
         ELSE [k \in 1 .. (4 * Len(block)) |-> block[((k - 1) \div 4) + 1]]
    ELSE IF channels = 1
         THEN [k \in 1 .. (2 * Len(block)) |-> block[((k - 1) \div 2) + 1]]
         ELSE block

C12_Normalisation ==
    norm.kind # "none" =>
        contents(streamBuffers[0])
          = norm.before \o Normalised(norm.channels, norm.sampleRate, norm.block)

\* A 22.05 kHz stereo frame with different left and right samples was
\* added behind samples already buffered, across the wrap of the cursor.
C12_Witness ==
    /\ norm.sampleRate = 22050 /\ norm.channels = 2
    /\ Len(norm.block) = 2 /\ norm.block[1] # norm.block[2]
    /\ norm.before # <<>>
    /\ streamBuffers[0].writePos < streamBuffers[0].readPos

\* ------------------------------------------------------------------------
\* C13  Auto-stop liveness.  As claimed: with loop() and the mixer running
\* (weak fairness on fillStreamBuffers, the stop check and processSample),
\* every started stream that is not stopped by a command eventually is
\* inactive with its file closed and its decoder released, whatever the
\* length of its file.
\* ------------------------------------------------------------------------
Stopped(i) ==
    /\ ~streams[i].active
    /\ ~streams[i].flashFile.open /\ ~streams[i].sdFile.open
    /\ streams[i].decoderIndex = -1

C13_AutoStop == \A i \in Slots : streams[i].active ~> Stopped(i)

\* ------------------------------------------------------------------------
\* C14  Hard limiting.  Every frame the mixer emits is, per channel, the
\* sum of the gain-scaled samples of the streams it mixed plus the tone
\* sample, saturated to -32768 .. 32767, and the accumulators stay inside
\* the int32_t range.
\* ------------------------------------------------------------------------
Saturated(v) == IF v > 32767 THEN 32767 ELSE IF v < -32768 THEN -32768 ELSE v

RECURSIVE SumOver(_, _)
SumOver(f, S) ==
    IF S = {} THEN 0
    ELSE LET i == CHOOSE j \in S : TRUE IN f[i] + SumOver(f, S \ {i})

\* The exact sum of channel k of the last frame.
ExactSum(k) == SumOver([i \in Slots |-> frame.parts[i][k]], Slots) + frame.tone

C14_HardLimit ==
    \A k \in {1, 2} :
        /\ frame.out[k] = Saturated(ExactSum(k))
        /\ frame.mixed[k] \in (-INT32_MAX - 1) .. INT32_MAX

\* Three full-scale streams and the tone at its peak: both channels clip.
C14_Witness ==
    /\ frame.tone > 32000
    /\ \A i \in Slots : frame.parts[i][1] > 30000
    /\ frame.mixed[1] > 32767 /\ frame.out[1] = 32767
    /\ frame.mixed[2] < -32768 /\ frame.out[2] = -32768

\* ------------------------------------------------------------------------
\* C15  Tone duration.  As claimed: after playChirp with durationMs > 0 the
\* tone is mixed into exactly durationMs * SAMPLE_RATE / 1000 frames, then
\* active becomes false and it is mixed into no later frame; with
\* startFreq = endFreq the phase increment stays the one of startFreq.
\* ------------------------------------------------------------------------
\* durationMs * 44100 / 1000
ExpectedFrames(durationMs) == (durationMs * 441) \div 10

C15_ToneDuration ==
    (tone.durationMs > 0) =>
        /\ tone.frames <= ExpectedFrames(tone.durationMs)
        /\ (~chirp.active => tone.frames = ExpectedFrames(tone.durationMs))
        /\ (tone.startFreq = tone.endFreq /\ chirp.active
               => chirp.phaseInc = freqInc(tone.startFreq))

\* ------------------------------------------------------------------------
\* C16  The sweep never overshoots.  After playChirp with durationMs > 0
\* the phase increment stays between the startFreq and the endFreq
\* increment, moves only toward the endFreq increment from frame to frame,
\* and the step is the increment difference divided by the stored sample
\* count, truncated toward zero.
\* ------------------------------------------------------------------------
\* The value of a uint32_t below 2^31.
Inc(a) == (a[1] * HALF) + a[2]

SweepBounds ==
    LET from == Inc(freqInc(tone.startFreq))
        to   == Inc(freqInc(tone.endFreq))
        cur  == Inc(chirp.phaseInc)
        T    == Inc(tone.total)
        step == chirp.sweepStep
    IN  /\ (to >= from => from <= cur /\ cur <= to)
        /\ (to <= from => to <= cur /\ cur <= from)
        /\ (T > 0 /\ to >= from =>
              step >= 0 /\ step * T <= to - from /\ to - from < (step + 1) * T)
        /\ (T > 0 /\ to <= from =>
              step <= 0 /\ (-step) * T <= from - to /\ from - to < (1 - step) * T)

SweepMonotone ==
    /\ (tone.endFreq >= tone.startFreq => Inc(chirp'.phaseInc) >= Inc(chirp.phaseInc))
    /\ (tone.endFreq <= tone.startFreq => Inc(chirp'.phaseInc) <= Inc(chirp.phaseInc))

C16_SweepNoOvershoot ==
    /\ [](tone.durationMs > 0 => SweepBounds)
    /\ [][tone.durationMs > 0 /\ ~tone'.fresh => SweepMonotone]_vars

\* The 500 Hz to 2000 Hz sweep of 50 ms with its 2205 samples used up: the
\* increment has risen and has not passed the 2000 Hz increment.
C16_Witness ==
    /\ tone.startFreq = 500 /\ tone.endFreq = 2000 /\ tone.durationMs = 50
    /\ tone.frames = 2205 /\ chirp.samplesLeft = u32Zero
    /\ Inc(chirp.phaseInc) > Inc(freqInc(500))
    /\ Inc(chirp.phaseInc) <= Inc(freqInc(2000))

\* ------------------------------------------------------------------------
\* C19  Last writer wins.  As claimed: right after any playChirp call the
\* generator is the one derived from the arguments of that call alone, a
\* call whose duration yields zero samples included (no samples, step 0).
\* As the code has it: this holds for the calls with durationMs > 0; a
\* call with durationMs <= 0 returns before it writes anything.
\* ------------------------------------------------------------------------
\* The sample counts the arguments of the last call can yield.
TotalsOfCall ==
    IF tone.durationMs <= 0 THEN {u32Zero} ELSE totalSamplesOf(tone.durationMs)

DerivedFromCall ==
    /\ chirp.active
    /\ chirp.phase = u32Zero
    /\ chirp.phaseInc = freqInc(tone.startFreq)
    /\ chirp.targetInc = freqInc(tone.endFreq)
    /\ chirp.samplesLeft \in TotalsOfCall
    /\ chirp.sweepStep = stepOf(freqInc(tone.startFreq), freqInc(tone.endFreq),
                                chirp.samplesLeft)
    /\ chirp.volume = tone.vol

C19_Original == tone.fresh => DerivedFromCall

C19_LastWriterWins == (tone.fresh /\ tone.durationMs > 0) => DerivedFromCall

\* A call with other arguments made while a tone was sounding, phase
\* advanced.
C19_Witness ==
    /\ tone.fresh /\ tone.over /\ tone.durationMs > 0
    /\ tone.startFreq = 2000 /\ tone.endFreq = 500
    /\ frame.tone # 0

\* ------------------------------------------------------------------------
\* C17  Atomic arming.  As claimed: with playChirp and the mixer interleaved
\* access by access, all the field values the mixer uses in one frame stem
\* from one and the same playChirp call.
\* ------------------------------------------------------------------------
C17_AtomicArming == Cardinality(arm.seen) <= 1

\* ------------------------------------------------------------------------
\* C20  Lock-free single-producer single-consumer safety.  With push and
\* the pops of the mixer interleaved access by access, every sample popped
\* is the oldest sample published by a completed store and not yet popped
\* (so: written before it is read, in push order, none lost, none twice),
\* and no store hits a slot whose sample has not been popped.
\* ------------------------------------------------------------------------
C20_SpscSafety ==
    /\ spsc.got = spsc.expect
    /\ ~spsc.overwrote

\* The buffer was full (a push was refused, so a number is missing among
\* the buffered samples), the write index has wrapped, the consumer has
\* popped in order, and both sides are inside a call.
C20_Witness ==
    /\ spsc.got = spsc.expect /\ spsc.got >= 2
    /\ streamBuffers[0].writePos < streamBuffers[0].readPos
    /\ \E k \in 1 .. (Len(fifo) - 1) : fifo[k + 1] > fifo[k] + 1
    /\ spsc.w.pc # 0 /\ spsc.r.pc # 0

\* ------------------------------------------------------------------------
\* C30  WAV data-chunk location.  As claimed: after a startStream call
\* that returned true on a WAV file with a `data` chunk, on either tier,
\* the read position of the stream's file is the first byte of the payload
\* of that chunk, with or without metadata chunks before it.
\* ------------------------------------------------------------------------
C30_DataChunkLocation ==
    (/\ call.op = "startStream" /\ call.ret
     /\ FileAt(call.filename).kind = "wav"
     /\ FileAt(call.filename).dataStart > 0) =>
        LET s == streams[call.slot]
            h == IF s.type = STREAM_TYPE_WAV_FLASH THEN s.flashFile ELSE s.sdFile
        IN  h.open /\ h.pos = FileAt(call.filename).dataStart

\* ------------------------------------------------------------------------
\* C29  Transient zero-byte read.  As claimed: for every stream type, a
\* read that returned zero bytes while the file had bytes left has not set
\* fileFinished (so the next pass reads the stream again).
\* ------------------------------------------------------------------------
C29_TransientRead == \A i \in ctl.zero : ~streams[i].fileFinished

C23_TeardownAfterDrain == ctl.torn.slot # -1 => ctl.torn.avail = 0

\* The flash stream (eight buffered samples at the end of its file) has
\* been torn down by the finished-and-empty test in loop(), after the
\* mixer drained it.
C23_Witness ==
    /\ ctl.torn.slot # -1 /\ ctl.torn.by = "empty" /\ ctl.torn.avail = 0
    /\ streams[ctl.torn.slot].filename = PathFlashA
    /\ streamBuffers[ctl.torn.slot].buffer[7] # 0
    /\ ctl.phase \in {"check", "cmd"}

\* ------------------------------------------------------------------------
\* C24  Auto-stop marking.  As claimed: at the end of every
\* fillStreamBuffers pass every active stream with fileFinished set and an
\* empty buffer has stopRequested set, whichever pass its file finished in.
\* ------------------------------------------------------------------------
C24_AutoStopMarking ==
    ctl.passEnd =>
        \A i \in Slots :
            (/\ streams[i].active /\ streams[i].fileFinished
             /\ availableForRead(streamBuffers[i]) = 0) => streams[i].stopRequested

\* ------------------------------------------------------------------------
\* C25  Deferred stop is serviced within one loop iteration.  No
\* stopRequested flag is set when an iteration of loop(), or of the pump
\* loop of playVoiceFeedback, begins or has ended, and every slot marked
\* in an iteration is inactive, with its file closed and its decoder
\* released, at the end of that iteration.
\* ------------------------------------------------------------------------
C25_StopServiced ==
    /\ ctl.phase \in {"setup", "voice", "vfill", "cmd"}
          => \A i \in Slots : ~streams[i].stopRequested
    /\ ctl.iterEnd => \A i \in ctl.marked : Stopped(i) /\ ~streams[i].stopRequested

\* An iteration of loop() has ended in which the MP3 stream was marked:
\* the slot is stopped and its decoder is back in the pool.
C25_Witness ==
    /\ ctl.iterEnd /\ ctl.phase = "cmd"
    /\ \E i \in ctl.marked :
          /\ streams[i].filename = PathSdMp3
          /\ ctl.torn = [slot |-> i, avail |-> 0, by |-> "stopRequested"]
    /\ \A d \in Decoders : ~mp3DecoderInUse[d]

C26_ConsumptionRule ==
    [][ProcessSample =>
          \A i \in Slots :
              LET rb == streamBuffers[i]
                  n  == availableForRead(rb)
                  c  == contents(rb)
                  g  == gainOf(streams[i], now)
              IN  IF streams[i].active /\ n >= 2
                  THEN /\ streamBuffers'[i] =
                             [rb EXCEPT !.readPos = (@ + 2) % STREAM_BUFFER_SIZE]
                       /\ contents(streamBuffers'[i]) = SubSeq(c, 3, n)
                       /\ frame'.parts[i] = <<shr8(c[1] * g), shr8(c[2] * g)>>
                  ELSE /\ streamBuffers'[i] = rb
                       /\ frame'.parts[i] = <<0, 0>>]_vars

\* A frame was mixed from a stream that had a frame buffered (left and
\* right differ) while another active stream had nothing to give.
C26_Witness ==
    \E i, j \in Slots :
        /\ frame.parts[i][1] > 0 /\ frame.parts[i][2] < 0
        /\ streams[j].active /\ frame.parts[j] = <<0, 0>>
        /\ availableForRead(streamBuffers[j]) < 2
        /\ call.op = "none"

\* ------------------------------------------------------------------------
\* C21  clear() is never concurrent with the consumer.  As claimed: in
\* every interleaving of stopStream / startStream with the mixer, no store
\* of clear() on the slot is made while the mixer is between its test of
\* active / availableForRead() and the end of its two pops, and the mixer
\* makes no access of a pop after active has been cleared.
\* ------------------------------------------------------------------------
C21_ClearNotConcurrent == ~spsc.clearInPop /\ ~spsc.popInactive

\* ------------------------------------------------------------------------
\* C22  No phantom samples after a restart.  As claimed: in every
\* interleaving, once startStream has returned true, availableForRead()
\* of the slot is the number of samples pushed minus the number popped
\* since that return; before the first push the buffer is empty.
\* ------------------------------------------------------------------------
C22_NoPhantomSamples ==
    (spsc.started /\ spsc.io.pc = "idle") =>
        availableForRead(streamBuffers[0]) = spsc.due

\* ------------------------------------------------------------------------
\* C36  Tone sample count.  As claimed: for every durationMs > 0 that
\* playChirp is called with, the samplesLeft it stores is
\* floor(durationMs * 44100 / 1000).
\* ------------------------------------------------------------------------
C36_ToneSampleCount ==
    (tone.durationMs > 0) => tone.total = u32FromInt(ExpectedFrames(tone.durationMs))

\* ------------------------------------------------------------------------
\* C35  Fade-in ramp.  A frame mixed e milliseconds after the start of a
\* stream (e counted across the wrap of the 32-bit clock) has the stream's
\* volume multiplied by floor(e * 256 / 50) / 256 when e < 50 and unscaled
\* when e >= 50; the scaled volume is 0 at e = 0, never above the unscaled
\* one, and the factor and the gain do not decrease from e to e + 1.
\* ------------------------------------------------------------------------
\* The milliseconds since the start of stream s, the clock having wrapped
\* at most once and less than 2^31 ms ago.
TrueElapsed(s) == now - s.startTime

RampFactor(e) == IF e < 50 THEN (e * 256) \div 50 ELSE 256

C35_FadeInRamp ==
    [][ProcessSample =>
          /\ \A i \in Slots :
                (streams[i].active /\ availableForRead(streamBuffers[i]) >= 2) =>
                    LET e    == TrueElapsed(streams[i])
                        vol  == volFixedOf(streams[i].volume)
                        full == shr8(vol * masterAttenMultiplier)
                        g    == shr8((IF e < 50 THEN shr8(vol * RampFactor(e)) ELSE vol)
                                       * masterAttenMultiplier)
                        c    == contents(streamBuffers[i])
                    IN  /\ frame'.parts[i] = <<shr8(c[1] * g), shr8(c[2] * g)>>
                        /\ g = gainOf(streams[i], now)
                        /\ g <= full /\ (e = 0 => g = 0) /\ (e >= 50 => g = full)
                        /\ g <= gainOf(streams[i], now + 1)
                        /\ RampFactor(e) <= RampFactor(e + 1)
                        /\ RampFactor(e + 1) <= 256]_vars

\* A frame has been mixed after the clock wrapped, from a stream started
\* before the wrap and less than 50 ms ago: the left sample is scaled by
\* the ramp of that moment, above 0 and below full gain.
C35_Witness ==
    \E i \in Slots :
        /\ streams[i].startTime < 0 /\ now >= 0 /\ TrueElapsed(streams[i]) \in 1 .. 49
        /\ frame.parts[i][1] =
              shr8(32767 * shr8(shr8(volFixedOf(streams[i].volume)
                                        * RampFactor(TrueElapsed(streams[i])))
                                  * masterAttenMultiplier))
        /\ frame.parts[i][1] > 0
        /\ frame.parts[i][1] < shr8(32767 * shr8(volFixedOf(streams[i].volume)
                                                  * masterAttenMultiplier))

\* ------------------------------------------------------------------------
\* C38: WAV streams never drop samples.  In every call of
\* fillStreamBuffers, for every slot with a WAV stream, the samples the
\* call reads from the file (the words between the file position before
\* and after the call) all reach the ring buffer: the buffer afterwards
\* holds what it held before followed by the expansion of those samples
\* for the format of the stream, none refused by push.
\* ------------------------------------------------------------------------
\* What a read of `samples` is to put into the buffer.
wavExpansion(channels, sampleRate, samples) ==
    IF sampleRate = 22050
    THEN IF channels = 2 THEN dupFrames(samples) ELSE dupSamples(samples, 4)
    ELSE IF channels = 1 THEN dupSamples(samples, 2) ELSE samples

wavHandle(s) == IF s.type = STREAM_TYPE_WAV_SD THEN s.sdFile ELSE s.flashFile

C38_WavNeverDrops ==
    [][FillStreamBuffers =>
          \A i \in Slots :
              (streams[i].type \in {STREAM_TYPE_WAV_SD, STREAM_TYPE_WAV_FLASH}) =>
                  LET s    == streams[i]
                      h    == wavHandle(s)
                      n    == wavHandle(streams'[i]).pos - h.pos
                      read == IF n > 0 THEN wordsRead(FileAt(h.name), h.pos, n) ELSE <<>>
                  IN  /\ n >= 0
                      /\ contents(streamBuffers'[i]) =
                            contents(streamBuffers[i])
                              \o wavExpansion(s.channels, s.sampleRate, read)]_vars

\* The second read of the mono 22.05 kHz file was made with one frame
\* still buffered, its eight samples all taken.
C38_Witness ==
    \E i \in Slots :
        /\ streams[i].active /\ streams[i].type = STREAM_TYPE_WAV_FLASH
        /\ streams[i].flashFile.name = PathFlashM22
        /\ streams[i].flashFile.pos = WavM22.size
        /\ contents(streamBuffers[i]) = <<2, 2, 3, 3, 3, 3, 4, 4, 4, 4>>

\* ------------------------------------------------------------------------
\* C39: left/right alignment.  After every fillStreamBuffers call and every
\* decode callback the number of samples pushed into a stream's buffer
\* since its start is even.  startStream empties the buffer and the mixer
\* pops two samples at a time, so the number pushed and the number
\* buffered have the same parity: every buffer holds an even number of
\* samples.
\* ------------------------------------------------------------------------
C39_LeftRightAligned ==
    \A i \in Slots : availableForRead(streamBuffers[i]) % 2 = 0

\* ------------------------------------------------------------------------
\* C37: a newly armed tone is not lost.  In every interleaving of the
\* stores of playChirp with the accesses of the mixer, once a playChirp
\* call made while the previous tone runs out has returned, chirp.active
\* is true as long as the armed tone has not been played to its end (the
\* mixer makes fewer frames here than the tone has samples).
\* ------------------------------------------------------------------------
C37_ToneNotLost ==
    (arm.calls > 1 /\ arm.pcP = 0) => chirp.active

\* ------------------------------------------------------------------------
\* C40: the fade timer uses the right timestamp.  No frame that the mixer
\* mixes from a stream (active tested true after the startStream call set
\* it, two samples found and popped) reads startTime before that call has
\* written it: the mixer never finishes such a frame between the stores
\* of part_005:708 and 710 of a call that restarts the slot.
\* ------------------------------------------------------------------------
C40_FadeTimestamp == ~spsc.stale

\* ------------------------------------------------------------------------
\* C31: the WAV chunk scan terminates.  Whatever the length fields of the
\* chunk headers hold, a startStream call that has opened a WAV file
\* leaves the scan loop and returns with the lock of the tier released.
\* ------------------------------------------------------------------------
C31_ScanTerminates ==
    (ctl.scan.pc # "idle") ~> (ctl.scan.pc = "returned" /\ ctl.scan.lock = "none")

\* ------------------------------------------------------------------------
\* C32: decode-context bookkeeping.  After every step
\* currentDecodingStream is the slot of the iteration while the decoder's
\* write() for that slot runs and -1 otherwise; a callback made during a
\* write() appends its block to the buffer of that slot and leaves every
\* other buffer as it was; a callback entered with currentDecodingStream
\* = -1, or with any value outside 0 .. MAX_STREAMS - 1, changes no
\* buffer.
\* ------------------------------------------------------------------------
C32_DecodeContext ==
    [][/\ ctl'.dec.cur = IF ctl'.dec.pc = "write" THEN ctl'.dec.idx ELSE -1
       /\ DecCallback =>
             /\ \A j \in Slots \ {ctl.dec.idx} : streamBuffers'[j] = streamBuffers[j]
             /\ contents(streamBuffers'[ctl.dec.idx])
                   = contents(streamBuffers[ctl.dec.idx]) \o <<1, 2>>
       /\ DecStray => streamBuffers' = streamBuffers
       /\ \A cur \in {-2, -1, MAX_STREAMS, MAX_STREAMS + 1} :
             mp3DataCallback(World, cur, 2, 44100, <<1, 2>>) = World]_vars

\* Two MP3 streams are active, the write() for slot 1 runs and its
\* callback has pushed a block into the buffer of slot 1 while the buffer
\* of the other MP3 stream is empty.
C32_Witness ==
    /\ ctl.dec.pc = "write" /\ ctl.dec.cur = 1
    /\ streams[0].active /\ streams[0].type = STREAM_TYPE_MP3_SD
    /\ streams[1].active /\ streams[1].type = STREAM_TYPE_MP3_SD
    /\ contents(streamBuffers[1]) = <<1, 2>>
    /\ contents(streamBuffers[0]) = <<>>

\* ------------------------------------------------------------------------
\* C33: storage-lock discipline.  In startStream, stopStream and
\* fillStreamBuffers every open, read, seek and close of a file is made
\* while the lock of the file's tier is held, and when the call has
\* returned (no operation left), on an error path or not, no lock is held.
\* ------------------------------------------------------------------------
C33_LockDiscipline ==
    /\ (ctl.lk.ops # <<>> /\ Head(ctl.lk.ops)[1] \in {"open", "read", "seek", "close"})
          => TierLock(Head(ctl.lk.ops)[2]) \in ctl.lk.held
    /\ (ctl.lk.ops # <<>> /\ Head(ctl.lk.ops)[1] = "exit")
          => Head(ctl.lk.ops)[2] \in ctl.lk.held
    /\ (ctl.lk.ops = <<>>) => ctl.lk.held = {}

\* startStream has returned false for want of a decoder, after opening
\* and closing the card file: two MP3 streams play, no lock is held.
C33_Witness ==
    /\ call.op = "startStream" /\ ~call.ret /\ call.filename = PathSdMp3
    /\ call.tr = <<"open", "close">>
    /\ ctl.lk.ops = <<>> /\ ctl.lk.held = {}
    /\ \A d \in Decoders : mp3DecoderInUse[d]

\* ------------------------------------------------------------------------
\* C34: no nested blocking under a storage lock.  No call of startStream,
\* stopStream or fillStreamBuffers enters a lock while it holds sd_mutex
\* or flash_mutex, and the two are never held together.
\* ------------------------------------------------------------------------
C34_NoNestedLock ==
    /\ (ctl.lk.ops # <<>> /\ Head(ctl.lk.ops)[1] = "enter")
          => ctl.lk.held \cap {"sd_mutex", "flash_mutex"} = {}
    /\ ~({"sd_mutex", "flash_mutex"} \subseteq ctl.lk.held)

====
